---------------------------- MODULE Spec2Model ----------------------------
(***************************************************************************)
(* Storage key encoding and subspace routing of the mail server            *)
(* (crates/store/src/write/key.rs), and the HTTP front end of its JMAP     *)
(* server (crates/jmap/src/api/http.rs): the request body reader, the      *)
(* endpoint access gate and the forwarded-address handling.                *)
(*                                                                         *)
(* Representation of machine integers.  TLC's integers are 32 bits wide,   *)
(* so a u32 is a pair and a u64 a quadruple of 16-bit limbs, most          *)
(* significant limb first; a u8 and a u16 are plain naturals.  A usize     *)
(* offset is a TLC integer read modulo 2^64: a negative x stands for       *)
(* 2^64 + x, which is where a wrapped subtraction of small numbers lands.  *)
(***************************************************************************)
EXTENDS Integers, Sequences, FiniteSets, TLC

VARIABLES
  op,               \* the operation applied last
  key,              \* the key object handed to serialize / subspace
  other,            \* a second key of the same class (ordering, collisions)
  flags,            \* the flag word handed to serialize
  buf,              \* serialize(flags) of key
  buf2,             \* serialize(flags) of other
  sub,              \* subspace() of key
  size_hint,        \* serialized_size() of key's class (ValueKey only)
  counter,          \* is_counter() of key (ValueKey only)
  counter2,         \* is_counter() of other (ValueKey only)
  input,            \* the byte slice handed to the decoder or the reader
  result,           \* what the decoder or the big-endian reader returned
  read_at,          \* the offset handed to deserialize_be_u16 / _u32 / _u64
  read_width,       \* the byte width of the integer that was read (2, 4, 8)
  overflow_checks,  \* build profile: are arithmetic overflow checks compiled in
  frames,           \* the frames of the request body stream, in arrival order
  polled,           \* how many frames fetch_body has taken off the stream
  fetched,          \* the buffer fetch_body accumulates (its `bytes`)
  max_size,         \* the size limit handed to fetch_body (0: no limit)
  body,             \* what fetch_body returned: None or Some(bytes)
  req,              \* the HTTP request: headers, path and method
  socket_ip,        \* the peer address of the connection (session.remote_ip)
  config,           \* server settings and the outcome of the checks it runs
  remote_ip,        \* the remote_ip handed to parse_http_request
  trace,            \* the steps parse_http_request has run, in order
  response,         \* the status of the response that was returned
  pc                \* where the fetch_body call or the HTTP request stands

key_vars == <<op, key, other, flags, buf, buf2, sub, size_hint, counter,
              counter2, input, result, read_at, read_width, overflow_checks>>

http_vars == <<frames, polled, fetched, max_size, body, req, socket_ip, config,
               remote_ip, trace, response, pc>>

vars == <<op, key, other, flags, buf, buf2, sub, size_hint, counter, counter2,
          input, result, read_at, read_width, overflow_checks,
          frames, polled, fetched, max_size, body, req, socket_ip, config,
          remote_ip, trace, response, pc>>

-----------------------------------------------------------------------------
(* Bounds of the model *)

\* longest variable-length byte field of a key (key bytes, names, words, ...)
MaxBytesLen == 2
\* longest report domain, in bytes
MaxDomainLen == 2

-----------------------------------------------------------------------------
(* Program constants *)

U16_LEN == 2
U32_LEN == 4
U64_LEN == 8
BLOB_HASH_LEN == 32
WITH_SUBSPACE == 1
BM_MARKER == 128

SUBSPACE_ACL == 97
SUBSPACE_BITMAP_ID == 98
SUBSPACE_BITMAP_TAG == 99
SUBSPACE_BITMAP_TEXT == 118
SUBSPACE_DIRECTORY == 100
SUBSPACE_TASK_QUEUE == 102
SUBSPACE_INDEXES == 105
SUBSPACE_BLOB_RESERVE == 106
SUBSPACE_BLOB_LINK == 107
SUBSPACE_LOGS == 108
SUBSPACE_COUNTER == 110
SUBSPACE_IN_MEMORY_VALUE == 109
SUBSPACE_IN_MEMORY_COUNTER == 121
SUBSPACE_PROPERTY == 112
SUBSPACE_SETTINGS == 115
SUBSPACE_QUEUE_MESSAGE == 101
SUBSPACE_QUEUE_EVENT == 113
SUBSPACE_QUOTA == 117
SUBSPACE_REPORT_OUT == 104
SUBSPACE_REPORT_IN == 114
SUBSPACE_FTS_INDEX == 103
SUBSPACE_TELEMETRY_SPAN == 111
SUBSPACE_TELEMETRY_METRIC == 120
SUBSPACE_TELEMETRY_INDEX == 119

-----------------------------------------------------------------------------
(* Machine integers *)

Limb == 256 * 256

\* the u32 / u64 of a small natural n
Mk32(n) == <<n \div Limb, n % Limb>>
Mk64(n) == <<0, 0, n \div Limb, n % Limb>>
U32_MAX == <<Limb - 1, Limb - 1>>
U64_MAX == <<Limb - 1, Limb - 1, Limb - 1, Limb - 1>>
U8_MAX == 255

\* numeric order of two integers of the same width (limb sequences)
RECURSIVE LimbsLt(_, _)
LimbsLt(a, b) ==
  IF a = <<>> THEN FALSE
  ELSE IF Head(a) # Head(b) THEN Head(a) < Head(b)
  ELSE LimbsLt(Tail(a), Tail(b))

\* slip: any set bit of the flag word counts
HasFlag_any_bit(f, bit) == f # 0

\* (flags & bit) != 0, for a single-bit mask
HasFlag(f, bit) == (f \div bit) % 2 = 1

\* lexicographic order of byte strings: a proper prefix sorts first
RECURSIVE BytesLt(_, _)
BytesLt(a, b) ==
  IF b = <<>> THEN FALSE
  ELSE IF a = <<>> THEN TRUE
  ELSE IF Head(a) # Head(b) THEN Head(a) < Head(b)
  ELSE BytesLt(Tail(a), Tail(b))

IsPrefix(p, s) == Len(p) <= Len(s) /\ SubSeq(s, 1, Len(p)) = p
IsStrictPrefix(p, s) == Len(p) < Len(s) /\ SubSeq(s, 1, Len(p)) = p

-----------------------------------------------------------------------------
(* KeySerializer: the typed writers *)

\* u16::to_be_bytes, u32::to_be_bytes, u64::to_be_bytes
to_be_bytes_u16(v) == <<v \div 256, v % 256>>
to_be_bytes_u32(v) == to_be_bytes_u16(v[1]) \o to_be_bytes_u16(v[2])
to_be_bytes_u64(v) ==
  to_be_bytes_u16(v[1]) \o to_be_bytes_u16(v[2]) \o
  to_be_bytes_u16(v[3]) \o to_be_bytes_u16(v[4])

write_u8(s, v) == Append(s, v)
write_u16(s, v) == s \o to_be_bytes_u16(v)
\* slip: to_le_bytes in place of to_be_bytes
write_u32_le(s, v) ==
  s \o <<v[2] % 256, v[2] \div 256, v[1] % 256, v[1] \div 256>>
write_u32(s, v) == s \o to_be_bytes_u32(v)
\* slip: to_le_bytes in place of to_be_bytes
write_u64_le(s, v) ==
  s \o <<v[4] % 256, v[4] \div 256, v[3] % 256, v[3] \div 256,
         v[2] % 256, v[2] \div 256, v[1] % 256, v[1] \div 256>>
write_u64(s, v) == s \o to_be_bytes_u64(v)
write_bytes(s, v) == s \o v

\* unsigned LEB128 of a limb sequence: seven bits a byte, low group first,
\* bit 7 set on every byte but the last
IsBelow128(v) ==
  /\ v[Len(v)] < 128
  /\ \A i \in 1..(Len(v) - 1) : v[i] = 0
Shr7(v) ==
  [i \in 1..Len(v) |->
     (v[i] \div 128) + (IF i > 1 THEN (v[i - 1] % 128) * 512 ELSE 0)]
RECURSIVE to_leb128_bytes(_)
to_leb128_bytes(v) ==
  IF IsBelow128(v) THEN <<v[Len(v)]>>
  ELSE <<128 + (v[Len(v)] % 128)>> \o to_leb128_bytes(Shr7(v))
write_leb128(s, v) == s \o to_leb128_bytes(v)

\* slip: the subspace byte is never written
KeySerializer_new_bare(f, subspace) == <<>>

\* KeySerializer::new(capacity) followed by the optional subspace byte
KeySerializer_new(f, subspace) ==
  IF HasFlag(f, WITH_SUBSPACE) THEN write_u8(<<>>, subspace) ELSE <<>>

-----------------------------------------------------------------------------
(* ValueClass: subspace routing, counter classification, size hint *)

\* slip: the collection is not looked at
Property_subspace_any_collection(field, collection) ==
  IF field = 84 THEN SUBSPACE_COUNTER ELSE SUBSPACE_PROPERTY

\* ValueClass::subspace, the Property arm
Property_subspace(field, collection) ==
  IF field = 84 /\ collection = 1 THEN SUBSPACE_COUNTER ELSE SUBSPACE_PROPERTY

BlobOp_subspace(blob) ==
  CASE blob.tag = "Reserve" -> SUBSPACE_BLOB_RESERVE
    [] blob.tag \in {"Commit", "Link", "LinkId"} -> SUBSPACE_BLOB_LINK

InMemoryClass_subspace(lookup) ==
  CASE lookup.tag = "Key" -> SUBSPACE_IN_MEMORY_VALUE
    [] lookup.tag = "Counter" -> SUBSPACE_IN_MEMORY_COUNTER

\* slip: the quota counter stays in the directory subspace
DirectoryClass_subspace_all_directory(directory) == SUBSPACE_DIRECTORY

DirectoryClass_subspace(directory) ==
  IF directory.tag = "UsedQuota" THEN SUBSPACE_QUOTA ELSE SUBSPACE_DIRECTORY

QueueClass_subspace(queue) ==
  CASE queue.tag = "Message" -> SUBSPACE_QUEUE_MESSAGE
    [] queue.tag = "MessageEvent" -> SUBSPACE_QUEUE_EVENT
    [] queue.tag \in {"DmarcReportHeader", "TlsReportHeader",
                      "DmarcReportEvent", "TlsReportEvent"} -> SUBSPACE_REPORT_OUT
    [] queue.tag \in {"QuotaCount", "QuotaSize"} -> SUBSPACE_QUOTA

TelemetryClass_subspace(telemetry) ==
  CASE telemetry.tag = "Span" -> SUBSPACE_TELEMETRY_SPAN
    [] telemetry.tag = "Index" -> SUBSPACE_TELEMETRY_INDEX
    [] telemetry.tag = "Metric" -> SUBSPACE_TELEMETRY_METRIC

ValueClass_subspace(class, collection) ==
  CASE class.tag = "Property" -> Property_subspace(class.field, collection)
    [] class.tag = "Acl" -> SUBSPACE_ACL
    [] class.tag = "FtsIndex" -> SUBSPACE_FTS_INDEX
    [] class.tag = "TaskQueue" -> SUBSPACE_TASK_QUEUE
    [] class.tag = "Blob" -> BlobOp_subspace(class.op)
    [] class.tag = "Config" -> SUBSPACE_SETTINGS
    [] class.tag = "InMemory" -> InMemoryClass_subspace(class.lookup)
    [] class.tag = "Directory" -> DirectoryClass_subspace(class.directory)
    [] class.tag = "Queue" -> QueueClass_subspace(class.queue)
    [] class.tag = "Report" -> SUBSPACE_REPORT_IN
    [] class.tag = "Telemetry" -> TelemetryClass_subspace(class.telemetry)
    [] class.tag \in {"DocumentId", "ChangeId"} -> SUBSPACE_COUNTER
    [] class.tag = "Any" -> class.any.subspace

\* slip: Property(84) counts as a counter in every collection
ValueClass_is_counter_any_collection(class, collection) ==
  CASE class.tag = "Directory" /\ class.directory.tag = "UsedQuota" -> TRUE
    [] class.tag = "InMemory" /\ class.lookup.tag = "Counter" -> TRUE
    [] class.tag = "Queue" /\ class.queue.tag \in {"QuotaCount", "QuotaSize"} -> TRUE
    [] class.tag \in {"DocumentId", "ChangeId"} -> TRUE
    [] class.tag = "Property" /\ class.field = 84 -> TRUE
    [] OTHER -> FALSE

\* slip: every Property field counts as a counter in collection 1
ValueClass_is_counter_any_field(class, collection) ==
  CASE class.tag = "Directory" /\ class.directory.tag = "UsedQuota" -> TRUE
    [] class.tag = "InMemory" /\ class.lookup.tag = "Counter" -> TRUE
    [] class.tag = "Queue" /\ class.queue.tag \in {"QuotaCount", "QuotaSize"} -> TRUE
    [] class.tag \in {"DocumentId", "ChangeId"} -> TRUE
    [] class.tag = "Property" /\ collection = 1 -> TRUE
    [] OTHER -> FALSE

ValueClass_is_counter(class, collection) ==
  CASE class.tag = "Directory" /\ class.directory.tag = "UsedQuota" -> TRUE
    [] class.tag = "InMemory" /\ class.lookup.tag = "Counter" -> TRUE
    [] class.tag = "Queue" /\ class.queue.tag \in {"QuotaCount", "QuotaSize"} -> TRUE
    [] class.tag \in {"DocumentId", "ChangeId"} -> TRUE
    [] class.tag = "Property" /\ class.field = 84 /\ collection = 1 -> TRUE
    [] OTHER -> FALSE

\* ValueClass::serialized_size: the capacity hint
ValueClass_serialized_size(class) ==
  CASE class.tag = "Property" -> U32_LEN * 2 + 3
    [] class.tag = "FtsIndex" ->
         (IF class.hash.len >= 8 THEN U32_LEN * 2 + 10
          ELSE class.hash.len + U32_LEN * 2 + 1)
    [] class.tag = "Acl" -> U32_LEN * 3 + 2
    [] class.tag = "InMemory" -> Len(class.lookup.key)
    [] class.tag = "Config" -> Len(class.key)
    [] class.tag = "Directory" ->
         (LET d == class.directory IN
          CASE d.tag = "NameToId" -> Len(d.name)
            [] d.tag = "EmailToId" -> Len(d.email)
            [] d.tag \in {"Principal", "UsedQuota"} -> U32_LEN
            [] d.tag \in {"Members", "MemberOf"} -> U32_LEN * 2
            [] d.tag = "Index" -> Len(d.word) + U32_LEN)
    [] class.tag = "Blob" ->
         (CASE class.op.tag = "Reserve" -> BLOB_HASH_LEN + U64_LEN + U32_LEN + 1
            [] class.op.tag \in {"Commit", "Link", "LinkId"} ->
                 BLOB_HASH_LEN + U32_LEN * 2 + 2)
    [] class.tag = "TaskQueue" ->
         (LET e == class.task IN
          CASE e.tag \in {"IndexEmail", "BayesTrain"} -> (BLOB_HASH_LEN + U64_LEN * 2) + 1
            [] e.tag = "SendAlarm" -> U64_LEN + (U32_LEN * 3) + 1
            [] e.tag = "SendImip" ->
                 (IF e.is_payload THEN (U64_LEN * 2) + (U32_LEN * 2) + 1
                  ELSE U64_LEN + (U32_LEN * 2) + 1))
    [] class.tag = "Queue" ->
         (LET q == class.queue IN
          CASE q.tag = "Message" -> U64_LEN
            [] q.tag = "MessageEvent" -> U64_LEN * 3
            [] q.tag \in {"DmarcReportEvent", "TlsReportEvent"} ->
                 Len(q.event.domain) + U64_LEN * 3
            [] q.tag \in {"DmarcReportHeader", "TlsReportHeader"} ->
                 Len(q.event.domain) + (U64_LEN * 3) + 1
            [] q.tag \in {"QuotaCount", "QuotaSize"} -> Len(q.key))
    [] class.tag = "Report" -> U64_LEN * 2 + 1
    [] class.tag = "Telemetry" ->
         (LET t == class.telemetry IN
          CASE t.tag = "Span" -> U64_LEN + 1
            [] t.tag = "Index" -> U64_LEN + Len(t.value) + 1
            [] t.tag = "Metric" -> U64_LEN * 2 + 1)
    [] class.tag = "DocumentId" -> U32_LEN + 1
    [] class.tag = "ChangeId" -> U32_LEN
    [] class.tag = "Any" -> Len(class.any.key)

-----------------------------------------------------------------------------
(* ValueClass::serialize, one operator per arm of the match *)

\* slip: the hash is written whole, not cut to the token's length
BitmapHash_get_untruncated(hash) == hash.hash

\* hash.get(0..min(len, 8)): None when the range ends past the slice
BitmapHash_get(hash) ==
  LET n == IF hash.len < 8 THEN hash.len ELSE 8
  IN  IF n <= Len(hash.hash) THEN SubSeq(hash.hash, 1, n) ELSE <<>>

\* slip: the length byte is written for every token length
FtsIndex_serialize_len_always(s, hash, account_id, collection, document_id) ==
  LET s1 == write_bytes(write_u32(s, account_id), BitmapHash_get(hash))
      s2 == write_u8(s1, hash.len)
  IN  write_u32(write_u8(s2, collection), document_id)

FtsIndex_serialize(s, hash, account_id, collection, document_id) ==
  LET s1 == write_bytes(write_u32(s, account_id), BitmapHash_get(hash))
      s2 == IF hash.len >= 8 THEN write_u8(s1, hash.len) ELSE s1
  IN  write_u32(write_u8(s2, collection), document_id)

\* slip: the payload row leads with its due like the schedule row
TaskQueueClass_serialize_payload_due_first(s, task, account_id, document_id) ==
  CASE task.tag = "IndexEmail" ->
         write_bytes(write_u32(write_u8(write_u32(write_u64(s, task.due),
           account_id), 0), document_id), task.hash)
    [] task.tag = "BayesTrain" ->
         write_bytes(write_u32(write_u8(write_u32(write_u64(s, task.due),
           account_id), IF task.learn_spam THEN 1 ELSE 2), document_id), task.hash)
    [] task.tag = "SendAlarm" ->
         write_u16(write_u16(write_u32(write_u8(write_u32(write_u64(s, task.due),
           account_id), 3), document_id), task.event_id), task.alarm_id)
    [] task.tag = "SendImip" ->
         IF ~task.is_payload
         THEN write_u32(write_u8(write_u32(write_u64(s, task.due),
                account_id), 4), document_id)
         ELSE write_u64(write_u32(write_u8(write_u32(write_u64(s, task.due),
                account_id), 5), document_id), U64_MAX)

TaskQueueClass_serialize(s, task, account_id, document_id) ==
  CASE task.tag = "IndexEmail" ->
         write_bytes(write_u32(write_u8(write_u32(write_u64(s, task.due),
           account_id), 0), document_id), task.hash)
    [] task.tag = "BayesTrain" ->
         write_bytes(write_u32(write_u8(write_u32(write_u64(s, task.due),
           account_id), IF task.learn_spam THEN 1 ELSE 2), document_id), task.hash)
    [] task.tag = "SendAlarm" ->
         write_u16(write_u16(write_u32(write_u8(write_u32(write_u64(s, task.due),
           account_id), 3), document_id), task.event_id), task.alarm_id)
    [] task.tag = "SendImip" ->
         IF ~task.is_payload
         THEN write_u32(write_u8(write_u32(write_u64(s, task.due),
                account_id), 4), document_id)
         ELSE write_u64(write_u32(write_u8(write_u32(write_u64(s, U64_MAX),
                account_id), 5), document_id), task.due)

\* (id >> 32) as u32 and id as u32
U64_high(id) == <<id[1], id[2]>>
U64_low(id) == <<id[3], id[4]>>

\* slip: the Commit sentinel is written as zeros
BlobOp_serialize_zero_sentinel(s, blob, account_id, collection, document_id) ==
  CASE blob.tag = "Reserve" ->
         write_u64(write_bytes(write_u32(s, account_id), blob.hash), blob.until)
    [] blob.tag = "Commit" ->
         write_u32(write_u8(write_u32(write_bytes(s, blob.hash), Mk32(0)), 0), Mk32(0))
    [] blob.tag = "Link" ->
         write_u32(write_u8(write_u32(write_bytes(s, blob.hash), account_id),
           collection), document_id)
    [] blob.tag = "LinkId" ->
         write_u32(write_u8(write_u32(write_bytes(s, blob.hash), U64_high(blob.id)),
           U8_MAX), U64_low(blob.id))

\* slip: a LinkId writes 0 where a Link writes its collection
BlobOp_serialize_linkid_zero(s, blob, account_id, collection, document_id) ==
  CASE blob.tag = "Reserve" ->
         write_u64(write_bytes(write_u32(s, account_id), blob.hash), blob.until)
    [] blob.tag = "Commit" ->
         write_u32(write_u8(write_u32(write_bytes(s, blob.hash), U32_MAX), 0), U32_MAX)
    [] blob.tag = "Link" ->
         write_u32(write_u8(write_u32(write_bytes(s, blob.hash), account_id),
           collection), document_id)
    [] blob.tag = "LinkId" ->
         write_u32(write_u8(write_u32(write_bytes(s, blob.hash), U64_high(blob.id)),
           0), U64_low(blob.id))

BlobOp_serialize(s, blob, account_id, collection, document_id) ==
  CASE blob.tag = "Reserve" ->
         write_u64(write_bytes(write_u32(s, account_id), blob.hash), blob.until)
    [] blob.tag = "Commit" ->
         write_u32(write_u8(write_u32(write_bytes(s, blob.hash), U32_MAX), 0), U32_MAX)
    [] blob.tag = "Link" ->
         write_u32(write_u8(write_u32(write_bytes(s, blob.hash), account_id),
           collection), document_id)
    [] blob.tag = "LinkId" ->
         write_u32(write_u8(write_u32(write_bytes(s, blob.hash), U64_high(blob.id)),
           U8_MAX), U64_low(blob.id))

DirectoryClass_serialize(s, directory) ==
  CASE directory.tag = "NameToId" -> write_bytes(write_u8(s, 0), directory.name)
    [] directory.tag = "EmailToId" -> write_bytes(write_u8(s, 1), directory.email)
    [] directory.tag = "Principal" -> write_leb128(write_u8(s, 2), directory.uid)
    [] directory.tag = "UsedQuota" -> write_leb128(write_u8(s, 4), directory.uid)
    [] directory.tag = "MemberOf" ->
         write_u32(write_u32(write_u8(s, 5), directory.principal_id), directory.member_of)
    [] directory.tag = "Members" ->
         write_u32(write_u32(write_u8(s, 6), directory.principal_id), directory.has_member)
    [] directory.tag = "Index" ->
         write_u32(write_bytes(write_u8(s, 7), directory.word), directory.principal_id)

\* the four report arms: variant byte, due, domain, policy_hash, seq_id
ReportEvent_write(s, variant, event) ==
  write_u64(write_u64(write_bytes(write_u64(write_u8(s, variant), event.due),
    event.domain), event.policy_hash), event.seq_id)

\* slip: MessageEvent writes queue_id ahead of due
QueueClass_serialize_queue_id_first(s, queue) ==
  CASE queue.tag = "Message" -> write_u64(s, queue.queue_id)
    [] queue.tag = "MessageEvent" ->
         write_bytes(write_u64(write_u64(s, queue.event.queue_id), queue.event.due),
           queue.event.queue_name)
    [] queue.tag = "DmarcReportHeader" -> write_u8(ReportEvent_write(s, 0, queue.event), 0)
    [] queue.tag = "TlsReportHeader" -> write_u8(ReportEvent_write(s, 0, queue.event), 1)
    [] queue.tag = "DmarcReportEvent" -> ReportEvent_write(s, 1, queue.event)
    [] queue.tag = "TlsReportEvent" -> ReportEvent_write(s, 2, queue.event)
    [] queue.tag = "QuotaCount" -> write_bytes(write_u8(s, 0), queue.key)
    [] queue.tag = "QuotaSize" -> write_bytes(write_u8(s, 1), queue.key)

\* slip: both report headers end with the same byte
QueueClass_serialize_same_header_byte(s, queue) ==
  CASE queue.tag = "Message" -> write_u64(s, queue.queue_id)
    [] queue.tag = "MessageEvent" ->
         write_bytes(write_u64(write_u64(s, queue.event.due), queue.event.queue_id),
           queue.event.queue_name)
    [] queue.tag = "DmarcReportHeader" -> write_u8(ReportEvent_write(s, 0, queue.event), 0)
    [] queue.tag = "TlsReportHeader" -> write_u8(ReportEvent_write(s, 0, queue.event), 0)
    [] queue.tag = "DmarcReportEvent" -> ReportEvent_write(s, 1, queue.event)
    [] queue.tag = "TlsReportEvent" -> ReportEvent_write(s, 2, queue.event)
    [] queue.tag = "QuotaCount" -> write_bytes(write_u8(s, 0), queue.key)
    [] queue.tag = "QuotaSize" -> write_bytes(write_u8(s, 1), queue.key)

QueueClass_serialize(s, queue) ==
  CASE queue.tag = "Message" -> write_u64(s, queue.queue_id)
    [] queue.tag = "MessageEvent" ->
         write_bytes(write_u64(write_u64(s, queue.event.due), queue.event.queue_id),
           queue.event.queue_name)
    [] queue.tag = "DmarcReportHeader" -> write_u8(ReportEvent_write(s, 0, queue.event), 0)
    [] queue.tag = "TlsReportHeader" -> write_u8(ReportEvent_write(s, 0, queue.event), 1)
    [] queue.tag = "DmarcReportEvent" -> ReportEvent_write(s, 1, queue.event)
    [] queue.tag = "TlsReportEvent" -> ReportEvent_write(s, 2, queue.event)
    [] queue.tag = "QuotaCount" -> write_bytes(write_u8(s, 0), queue.key)
    [] queue.tag = "QuotaSize" -> write_bytes(write_u8(s, 1), queue.key)

ReportClass_serialize(s, report) ==
  CASE report.tag = "Tls" -> write_u64(write_u64(write_u8(s, 0), report.expires), report.id)
    [] report.tag = "Dmarc" -> write_u64(write_u64(write_u8(s, 1), report.expires), report.id)
    [] report.tag = "Arf" -> write_u64(write_u64(write_u8(s, 2), report.expires), report.id)

TelemetryClass_serialize(s, telemetry) ==
  CASE telemetry.tag = "Span" -> write_u64(s, telemetry.span_id)
    [] telemetry.tag = "Index" ->
         write_u64(write_bytes(s, telemetry.value), telemetry.span_id)
    [] telemetry.tag = "Metric" ->
         write_leb128(write_leb128(write_u64(s, telemetry.timestamp),
           telemetry.metric_id), telemetry.node_id)

ValueClass_serialize(class, account_id, collection, document_id, f) ==
  LET serializer == KeySerializer_new(f, ValueClass_subspace(class, collection)) IN
  CASE class.tag = "Property" ->
         write_u32(write_u8(write_u8(write_u32(serializer, account_id), collection),
           class.field), document_id)
    [] class.tag = "FtsIndex" ->
         FtsIndex_serialize(serializer, class.hash, account_id, collection, document_id)
    [] class.tag = "Acl" ->
         write_u32(write_u8(write_u32(write_u32(serializer, class.grant_account_id),
           account_id), collection), document_id)
    [] class.tag = "TaskQueue" ->
         TaskQueueClass_serialize(serializer, class.task, account_id, document_id)
    [] class.tag = "Blob" ->
         BlobOp_serialize(serializer, class.op, account_id, collection, document_id)
    [] class.tag = "Config" -> write_bytes(serializer, class.key)
    [] class.tag = "InMemory" -> write_bytes(serializer, class.lookup.key)
    [] class.tag = "Directory" -> DirectoryClass_serialize(serializer, class.directory)
    [] class.tag = "Queue" -> QueueClass_serialize(serializer, class.queue)
    [] class.tag = "Report" -> ReportClass_serialize(serializer, class.report)
    [] class.tag = "Telemetry" -> TelemetryClass_serialize(serializer, class.telemetry)
    [] class.tag = "DocumentId" -> write_u8(write_u32(serializer, account_id), collection)
    [] class.tag = "ChangeId" -> write_u32(serializer, account_id)
    [] class.tag = "Any" -> write_bytes(serializer, class.any.key)

-----------------------------------------------------------------------------
(* The other key types *)

\* slip: the subspace byte is written after the account id
IndexKeyPrefix_serialize_late_subspace(k, f) ==
  write_u8(write_u8(write_bytes(write_u32(<<>>, k.account_id),
    KeySerializer_new(f, SUBSPACE_INDEXES)), k.collection), k.field)

\* slip: field and collection are written in the wrong order
IndexKeyPrefix_serialize_swapped(k, f) ==
  write_u8(write_u8(write_u32(KeySerializer_new(f, SUBSPACE_INDEXES),
    k.account_id), k.field), k.collection)

IndexKeyPrefix_serialize(k, f) ==
  write_u8(write_u8(write_u32(KeySerializer_new(f, SUBSPACE_INDEXES),
    k.account_id), k.collection), k.field)

\* slip: the collection is written ahead of the account id
LogKey_serialize_collection_first(k, f) ==
  write_u64(write_u32(write_u8(KeySerializer_new(f, SUBSPACE_LOGS),
    k.collection), k.account_id), k.change_id)

LogKey_serialize(k, f) ==
  write_u64(write_u8(write_u32(KeySerializer_new(f, SUBSPACE_LOGS),
    k.account_id), k.collection), k.change_id)

\* slip: the document id is written ahead of the key bytes
IndexKey_serialize_doc_first(k, f) ==
  write_bytes(write_u32(write_u8(write_u8(write_u32(
    KeySerializer_new(f, SUBSPACE_INDEXES),
    k.account_id), k.collection), k.field), k.document_id), k.key)

IndexKey_serialize(k, f) ==
  write_u32(write_bytes(write_u8(write_u8(write_u32(
    KeySerializer_new(f, SUBSPACE_INDEXES),
    k.account_id), k.collection), k.field), k.key), k.document_id)

\* slip: the tag and text bitmaps trade subspaces
BitmapClass_subspace_swapped(class) ==
  CASE class.tag = "DocumentIds" -> SUBSPACE_BITMAP_ID
    [] class.tag = "Tag" -> SUBSPACE_BITMAP_TEXT
    [] class.tag = "Text" -> SUBSPACE_BITMAP_TAG

BitmapClass_subspace(class) ==
  CASE class.tag = "DocumentIds" -> SUBSPACE_BITMAP_ID
    [] class.tag = "Tag" -> SUBSPACE_BITMAP_TAG
    [] class.tag = "Text" -> SUBSPACE_BITMAP_TEXT

\* slip: the marker bit is not set
BitOr_marker_unset(field) == field

\* field | BM_MARKER on a u8
BitOr_marker(field) == IF field >= BM_MARKER THEN field ELSE field + BM_MARKER

BitmapClass_Tag_serialize(class, account_id, collection, f) ==
  CASE class.value.tag = "Id" ->
         write_leb128(write_u8(write_u8(write_u32(
           KeySerializer_new(f, SUBSPACE_BITMAP_TAG),
           account_id), collection), class.field), class.value.id)
    [] class.value.tag = "Text" ->
         write_bytes(write_u8(write_u8(write_u32(
           KeySerializer_new(f, SUBSPACE_BITMAP_TAG),
           account_id), collection), BitOr_marker(class.field)), class.value.text)

\* slip: the length byte is never written
BitmapClass_Text_serialize_no_len(class, account_id, collection, f) ==
  LET s1 == write_bytes(write_u32(KeySerializer_new(f, SUBSPACE_BITMAP_TEXT),
              account_id), BitmapHash_get(class.token))
  IN  write_u8(write_u8(s1, collection), class.field)

BitmapClass_Text_serialize(class, account_id, collection, f) ==
  LET s1 == write_bytes(write_u32(KeySerializer_new(f, SUBSPACE_BITMAP_TEXT),
              account_id), BitmapHash_get(class.token))
      s2 == IF class.token.len >= 8 THEN write_u8(s1, class.token.len) ELSE s1
  IN  write_u8(write_u8(s2, collection), class.field)

BitmapClass_serialize(class, account_id, collection, document_id, f) ==
  write_u32(
    CASE class.tag = "DocumentIds" ->
           write_u8(write_u32(KeySerializer_new(f, SUBSPACE_BITMAP_ID),
             account_id), collection)
      [] class.tag = "Tag" -> BitmapClass_Tag_serialize(class, account_id, collection, f)
      [] class.tag = "Text" -> BitmapClass_Text_serialize(class, account_id, collection, f),
    document_id)

AnyKey_serialize(k, f) ==
  write_bytes(KeySerializer_new(f, k.subspace), k.key)

\* Key::serialize and Key::subspace, dispatched on the key type
Key_serialize(k, f) ==
  CASE k.kt = "ValueKey" ->
         ValueClass_serialize(k.class, k.account_id, k.collection, k.document_id, f)
    [] k.kt = "BitmapKey" ->
         BitmapClass_serialize(k.class, k.account_id, k.collection, k.document_id, f)
    [] k.kt = "IndexKey" -> IndexKey_serialize(k, f)
    [] k.kt = "IndexKeyPrefix" -> IndexKeyPrefix_serialize(k, f)
    [] k.kt = "LogKey" -> LogKey_serialize(k, f)
    [] k.kt = "AnyKey" -> AnyKey_serialize(k, f)

Key_subspace(k) ==
  CASE k.kt = "ValueKey" -> ValueClass_subspace(k.class, k.collection)
    [] k.kt = "BitmapKey" -> BitmapClass_subspace(k.class)
    [] k.kt \in {"IndexKey", "IndexKeyPrefix"} -> SUBSPACE_INDEXES
    [] k.kt = "LogKey" -> SUBSPACE_LOGS
    [] k.kt = "AnyKey" -> k.subspace

\* ValueKey::is_counter
ValueKey_is_counter(k) == ValueClass_is_counter(k.class, k.collection)

-----------------------------------------------------------------------------
(* The keys the model serializes: every key type and every variant, with   *)
(* field values at the byte boundaries (1, 256, the maximum), LEB128       *)
(* values on both sides of 128, and byte strings of every length up to the *)
(* bound.                                                                  *)

BytesUpTo(alphabet, n) == UNION {[1..m -> alphabet] : m \in 0..n}

\* std::str::from_utf8(..).is_ok()
IsCont(b) == b \in 128..191
RECURSIVE Utf8Valid(_)
Utf8Valid(b) ==
  IF b = <<>> THEN TRUE
  ELSE LET c == b[1]
           rest(n) == SubSeq(b, n + 1, Len(b))
       IN  IF c < 128 THEN Utf8Valid(rest(1))
           ELSE IF c \in 194..223
             THEN Len(b) >= 2 /\ IsCont(b[2]) /\ Utf8Valid(rest(2))
           ELSE IF c \in 224..239
             THEN /\ Len(b) >= 3
                  /\ b[2] \in (IF c = 224 THEN 160..191
                               ELSE IF c = 237 THEN 128..159 ELSE 128..191)
                  /\ IsCont(b[3])
                  /\ Utf8Valid(rest(3))
           ELSE IF c \in 240..244
             THEN /\ Len(b) >= 4
                  /\ b[2] \in (IF c = 240 THEN 144..191
                               ELSE IF c = 244 THEN 128..143 ELSE 128..191)
                  /\ IsCont(b[3]) /\ IsCont(b[4])
                  /\ Utf8Valid(rest(4))
           ELSE FALSE

AccountIds == {Mk32(1), U32_MAX}
Collections == {0, 1, 255}
DocIds == {Mk32(1), Mk32(256), U32_MAX}
Fields == {5, 84}
U16s == {1, 256}
U32s == {Mk32(1), Mk32(129), Mk32(256), U32_MAX}
U64s == {Mk64(1), Mk64(256), U64_MAX}
Dues == {Mk64(1), Mk64(256)}
BlobHashes == {[i \in 1..BLOB_HASH_LEN |-> 0], [i \in 1..BLOB_HASH_LEN |-> 255]}
ByteStrings == BytesUpTo({97, 255}, MaxBytesLen)
DomainBytes == {97, 195, 169}
Domains == {d \in BytesUpTo(DomainBytes, MaxDomainLen) : Utf8Valid(d)}
QueueNames == {[i \in 1..8 |-> 97], [i \in 1..8 |-> 98]}
\* BitmapHash { hash: [u8; 8], len: u8 }: the token's length and its first bytes
BitmapHashes ==
  { [hash |-> <<97, 0, 0, 0, 0, 0, 0, 0>>, len |-> 1],
    [hash |-> <<97, 98, 0, 0, 0, 0, 0, 0>>, len |-> 2],
    [hash |-> <<1, 2, 3, 4, 5, 6, 7, 8>>, len |-> 8],
    [hash |-> <<1, 2, 3, 4, 5, 6, 7, 8>>, len |-> 9] }
ReportEvents ==
  { [due |-> d, policy_hash |-> p, seq_id |-> q, domain |-> m] :
      d \in Dues, p \in {Mk64(1), U64_MAX}, q \in {Mk64(1), Mk64(256)}, m \in Domains }

ValueKey(a, c, d, class) ==
  [kt |-> "ValueKey", account_id |-> a, collection |-> c, document_id |-> d,
   class |-> class]
BitmapKey(a, c, d, class) ==
  [kt |-> "BitmapKey", account_id |-> a, collection |-> c, document_id |-> d,
   class |-> class]

\* ValueKey over classes whose bytes use account_id, collection and document_id
FullKeys(classes) ==
  { ValueKey(a, c, d, class) :
      a \in AccountIds, c \in Collections, d \in DocIds, class \in classes }
\* ValueKey over classes built by From<ValueClass>: account, document 0
GlobalKeys(classes) ==
  { ValueKey(Mk32(0), c, Mk32(0), class) : c \in {0, 1}, class \in classes }
\* ValueKey over the task queue: account_id and document_id are written
TaskKeys(tasks) ==
  { ValueKey(a, c, d, [tag |-> "TaskQueue", task |-> t]) :
      a \in AccountIds, c \in {0, 1}, d \in {Mk32(1), U32_MAX}, t \in tasks }
Dir(ds) == GlobalKeys({[tag |-> "Directory", directory |-> d] : d \in ds})
Que(qs) == GlobalKeys({[tag |-> "Queue", queue |-> q] : q \in qs})
Tel(ts) == GlobalKeys({[tag |-> "Telemetry", telemetry |-> t] : t \in ts})
Blo(bs) == {[tag |-> "Blob", op |-> b] : b \in bs}

\* one set of keys per key type and variant
Families ==
  { FullKeys({[tag |-> "Property", field |-> f] : f \in Fields}),
    FullKeys({[tag |-> "FtsIndex", hash |-> h] : h \in BitmapHashes}),
    FullKeys({[tag |-> "Acl", grant_account_id |-> g] : g \in AccountIds}),
    TaskKeys({[tag |-> "IndexEmail", due |-> u, hash |-> h] :
                u \in Dues, h \in BlobHashes}),
    TaskKeys({[tag |-> "BayesTrain", due |-> u, hash |-> h, learn_spam |-> l] :
                u \in Dues, h \in BlobHashes, l \in BOOLEAN}),
    TaskKeys({[tag |-> "SendAlarm", due |-> u, event_id |-> e, alarm_id |-> l] :
                u \in Dues, e \in U16s, l \in U16s}),
    TaskKeys({[tag |-> "SendImip", due |-> u, is_payload |-> l] :
                u \in U64s, l \in BOOLEAN}),
    FullKeys(Blo({[tag |-> "Reserve", hash |-> h, until |-> u] :
                h \in BlobHashes, u \in Dues})),
    GlobalKeys(Blo({[tag |-> "Commit", hash |-> h] : h \in BlobHashes})),
    FullKeys(Blo({[tag |-> "Link", hash |-> h] : h \in BlobHashes})),
    GlobalKeys(Blo({[tag |-> "LinkId", hash |-> h, id |-> i] :
                h \in BlobHashes, i \in U64s \cup {<<0, 1, 0, 1>>}})),
    GlobalKeys({[tag |-> "Config", key |-> b] : b \in ByteStrings}),
    GlobalKeys({[tag |-> "InMemory", lookup |-> [tag |-> "Key", key |-> b]] :
                b \in ByteStrings}),
    GlobalKeys({[tag |-> "InMemory", lookup |-> [tag |-> "Counter", key |-> b]] :
                b \in ByteStrings}),
    Dir({[tag |-> "NameToId", name |-> b] : b \in ByteStrings}),
    Dir({[tag |-> "EmailToId", email |-> b] : b \in ByteStrings}),
    Dir({[tag |-> "Principal", uid |-> u] : u \in U32s}),
    Dir({[tag |-> "UsedQuota", uid |-> u] : u \in U32s}),
    Dir({[tag |-> "MemberOf", principal_id |-> u, member_of |-> m] :
           u \in U32s, m \in U32s}),
    Dir({[tag |-> "Members", principal_id |-> u, has_member |-> m] :
           u \in U32s, m \in U32s}),
    Dir({[tag |-> "Index", word |-> b, principal_id |-> u] :
           b \in ByteStrings, u \in U32s}),
    Que({[tag |-> "Message", queue_id |-> q] : q \in U64s}),
    Que({[tag |-> "MessageEvent",
          event |-> [due |-> d, queue_id |-> q, queue_name |-> n]] :
           d \in U64s, q \in U64s, n \in QueueNames}),
    Que({[tag |-> "DmarcReportHeader", event |-> e] : e \in ReportEvents}),
    Que({[tag |-> "TlsReportHeader", event |-> e] : e \in ReportEvents}),
    Que({[tag |-> "DmarcReportEvent", event |-> e] : e \in ReportEvents}),
    Que({[tag |-> "TlsReportEvent", event |-> e] : e \in ReportEvents}),
    Que({[tag |-> "QuotaCount", key |-> b] : b \in ByteStrings}),
    Que({[tag |-> "QuotaSize", key |-> b] : b \in ByteStrings}),
    GlobalKeys({[tag |-> "Report", report |-> [tag |-> "Tls", id |-> i, expires |-> e]] :
                i \in U64s, e \in U64s}),
    GlobalKeys({[tag |-> "Report", report |-> [tag |-> "Dmarc", id |-> i, expires |-> e]] :
                i \in U64s, e \in U64s}),
    GlobalKeys({[tag |-> "Report", report |-> [tag |-> "Arf", id |-> i, expires |-> e]] :
                i \in U64s, e \in U64s}),
    Tel({[tag |-> "Span", span_id |-> i] : i \in U64s}),
    Tel({[tag |-> "Index", span_id |-> i, value |-> b] : i \in U64s, b \in ByteStrings}),
    Tel({[tag |-> "Metric", timestamp |-> t, metric_id |-> m, node_id |-> n] :
           t \in Dues, m \in {Mk64(1), Mk64(129), Mk64(256), U64_MAX},
           n \in {Mk64(1), U64_MAX}}),
    { ValueKey(a, c, Mk32(0), [tag |-> "DocumentId"]) :
        a \in AccountIds \cup {Mk32(256)}, c \in Collections },
    { ValueKey(a, c, Mk32(0), [tag |-> "ChangeId"]) :
        a \in AccountIds \cup {Mk32(256)}, c \in Collections },
    GlobalKeys({[tag |-> "Any", any |-> [subspace |-> u, key |-> b]] :
                u \in {0, SUBSPACE_COUNTER, SUBSPACE_QUOTA}, b \in ByteStrings}),
    { BitmapKey(a, c, d, [tag |-> "DocumentIds"]) :
        a \in AccountIds, c \in Collections, d \in DocIds },
    { BitmapKey(a, c, d, [tag |-> "Tag", field |-> f, value |-> [tag |-> "Id", id |-> i]]) :
        a \in AccountIds, c \in {0, 1}, d \in {Mk32(1), U32_MAX},
        f \in Fields, i \in U32s },
    { BitmapKey(a, c, d, [tag |-> "Tag", field |-> f, value |-> [tag |-> "Text", text |-> t]]) :
        a \in AccountIds, c \in {0, 1}, d \in {Mk32(1), U32_MAX},
        f \in Fields, t \in ByteStrings },
    { BitmapKey(a, c, d, [tag |-> "Text", field |-> f, token |-> h]) :
        a \in AccountIds, c \in {0, 1}, d \in {Mk32(1), U32_MAX},
        f \in Fields, h \in BitmapHashes },
    { [kt |-> "IndexKeyPrefix", account_id |-> a, collection |-> c, field |-> f] :
        a \in AccountIds \cup {Mk32(256)}, c \in Collections, f \in Fields },
    { [kt |-> "IndexKey", account_id |-> a, collection |-> c, field |-> f,
       key |-> b, document_id |-> d] :
        a \in AccountIds, c \in {0, 1}, f \in Fields, b \in ByteStrings,
        d \in {Mk32(1), U32_MAX} },
    { [kt |-> "LogKey", account_id |-> a, collection |-> c, change_id |-> g] :
        a \in AccountIds, c \in Collections, g \in U64s },
    { [kt |-> "AnyKey", subspace |-> u, key |-> b] :
        u \in {0, SUBSPACE_INDEXES, 255}, b \in ByteStrings } }

Keys == UNION Families
FlagWords == {0, WITH_SUBSPACE}
NoKey == [kt |-> "none"]

-----------------------------------------------------------------------------
(* DeserializeBigEndian and ReportEvent::deserialize *)

\* unsigned order of two usize values (a negative integer stands for 2^64 + x)
USizeLe(a, b) == IF (a < 0) = (b < 0) THEN a <= b ELSE b < 0

\* slice.get(from..to): None unless from <= to <= len
slice_get(s, from, to) ==
  IF USizeLe(from, to) /\ USizeLe(to, Len(s))
  THEN [some |-> TRUE, bytes |-> SubSeq(s, from + 1, to)]
  ELSE [some |-> FALSE, bytes |-> <<>>]

\* slip: from_le_bytes in place of from_be_bytes
from_le_bytes_u64(b) ==
  <<b[8] * 256 + b[7], b[6] * 256 + b[5], b[4] * 256 + b[3], b[2] * 256 + b[1]>>

from_be_bytes_u64(b) ==
  <<b[1] * 256 + b[2], b[3] * 256 + b[4], b[5] * 256 + b[6], b[7] * 256 + b[8]>>

\* u16::from_be_bytes and u32::from_be_bytes
from_be_bytes_u16(b) == b[1] * 256 + b[2]
from_be_bytes_u32(b) == <<b[1] * 256 + b[2], b[3] * 256 + b[4]>>

Ok(v) == [kind |-> "Ok", value |-> v]
DataCorruption == [kind |-> "Err", error |-> "DataCorruption"]
Panic == [kind |-> "Panic"]

\* slip: the slice is taken one byte late, index + 1 .. index + 1 + U64_LEN
deserialize_be_u64_late(s, index, checks) ==
  LET to == index + U64_LEN
      overflow == index < 0 /\ to >= 0
      bytes == slice_get(s, index + 1, to + 1)
  IN  IF overflow /\ checks THEN [kind |-> "Panic"]
      ELSE IF bytes.some THEN [kind |-> "Ok", value |-> from_be_bytes_u64(bytes.bytes)]
      ELSE [kind |-> "Err", error |-> "DataCorruption"]

\* index + U64_LEN overflows usize when index is within U64_LEN of 2^64
deserialize_be_u64(s, index, checks) ==
  LET to == index + U64_LEN
      overflow == index < 0 /\ to >= 0
      bytes == slice_get(s, index, to)
  IN  IF overflow /\ checks THEN Panic
      ELSE IF bytes.some THEN Ok(from_be_bytes_u64(bytes.bytes))
      ELSE DataCorruption

\* the same reader at the other two widths
deserialize_be_u16(s, index, checks) ==
  LET to == index + U16_LEN
      overflow == index < 0 /\ to >= 0
      bytes == slice_get(s, index, to)
  IN  IF overflow /\ checks THEN Panic
      ELSE IF bytes.some THEN Ok(from_be_bytes_u16(bytes.bytes))
      ELSE DataCorruption

deserialize_be_u32(s, index, checks) ==
  LET to == index + U32_LEN
      overflow == index < 0 /\ to >= 0
      bytes == slice_get(s, index, to)
  IN  IF overflow /\ checks THEN Panic
      ELSE IF bytes.some THEN Ok(from_be_bytes_u32(bytes.bytes))
      ELSE DataCorruption

\* key.len() - n on usize: panics under overflow checks, wraps without
usize_sub(len, n, checks) ==
  IF len < n /\ checks THEN [panic |-> TRUE, value |-> 0]
  ELSE [panic |-> FALSE, value |-> len - n]

\* slip: the offsets of a key that ends with seq_id, len - 16 and len - 8
ReportEvent_deserialize_event_layout(k, checks) ==
  LET due == deserialize_be_u64(k, 1, checks)
      ph_at == usize_sub(Len(k), U64_LEN * 2, checks)
      policy_hash == deserialize_be_u64(k, ph_at.value, checks)
      seq_at == usize_sub(Len(k), U64_LEN, checks)
      seq_id == deserialize_be_u64(k, seq_at.value, checks)
      dom_to == usize_sub(Len(k), U64_LEN * 2, checks)
      domain == slice_get(k, U64_LEN + 1, dom_to.value)
  IN  IF due.kind # "Ok" THEN due
      ELSE IF ph_at.panic THEN [kind |-> "Panic"]
      ELSE IF policy_hash.kind # "Ok" THEN policy_hash
      ELSE IF seq_at.panic THEN [kind |-> "Panic"]
      ELSE IF seq_id.kind # "Ok" THEN seq_id
      ELSE IF dom_to.panic THEN [kind |-> "Panic"]
      ELSE IF ~domain.some \/ ~Utf8Valid(domain.bytes)
        THEN [kind |-> "Err", error |-> "DataCorruption"]
      ELSE [kind |-> "Ok",
            value |-> [due |-> due.value, policy_hash |-> policy_hash.value,
                       seq_id |-> seq_id.value, domain |-> domain.bytes]]

\* the fields of the struct literal are evaluated in source order,
\* each `?` returning the first error
ReportEvent_deserialize(k, checks) ==
  LET due == deserialize_be_u64(k, 1, checks)
      ph_at == usize_sub(Len(k), U64_LEN * 2 + 1, checks)
      policy_hash == deserialize_be_u64(k, ph_at.value, checks)
      seq_at == usize_sub(Len(k), U64_LEN + 1, checks)
      seq_id == deserialize_be_u64(k, seq_at.value, checks)
      dom_to == usize_sub(Len(k), U64_LEN * 2 + 1, checks)
      domain == slice_get(k, U64_LEN + 1, dom_to.value)
  IN  IF due.kind # "Ok" THEN due
      ELSE IF ph_at.panic THEN Panic
      ELSE IF policy_hash.kind # "Ok" THEN policy_hash
      ELSE IF seq_at.panic THEN Panic
      ELSE IF seq_id.kind # "Ok" THEN seq_id
      ELSE IF dom_to.panic THEN Panic
      ELSE IF ~domain.some \/ ~Utf8Valid(domain.bytes) THEN DataCorruption
      ELSE Ok([due |-> due.value, policy_hash |-> policy_hash.value,
               seq_id |-> seq_id.value, domain |-> domain.bytes])

-----------------------------------------------------------------------------
(* Specifications *)

NoResult == [kind |-> "none"]

\* Option values: None is the empty sequence, Some(v) the sequence <<v>>
None == <<>>
Some(v) == <<v>>

\* the address slot before any address was chosen
NoIp == [v |-> 0, a |-> <<>>]

\* the request slot before any request arrived
NoRequest == [forwarded |-> None, x_forwarded_for |-> None,
              path |-> <<>>, method |-> ""]

\* the settings slot before any request arrived
NoConfig == [http_use_forwarded |-> FALSE, http_allowed_endpoint |-> None,
             blocked |-> {}, authenticated |-> FALSE, anonymous_allowed |-> FALSE]

\* responses: a bare status (StatusCode::into_http_response), the response of
\* the handler the request was handed to, or the error of the step that failed
Status(code) == [kind |-> "status", status |-> code, of |-> ""]
Handled(handler) == [kind |-> "handler", status |-> 0, of |-> handler]
Failed(step) == [kind |-> "err", status |-> 0, of |-> step]
NoResponse == [kind |-> "none", status |-> 0, of |-> ""]

\* no request body is being read and no HTTP request is being served
HttpIdle ==
  /\ frames = <<>>
  /\ polled = 0
  /\ fetched = <<>>
  /\ max_size = 0
  /\ body = None
  /\ req = NoRequest
  /\ socket_ip = NoIp
  /\ config = NoConfig
  /\ remote_ip = NoIp
  /\ trace = <<>>
  /\ response = NoResponse
  /\ pc = "idle"

InitKeys ==
  /\ op = "init"
  /\ key = NoKey
  /\ other = NoKey
  /\ flags = 0
  /\ buf = <<>>
  /\ buf2 = <<>>
  /\ sub = 0
  /\ size_hint = 0
  /\ counter = FALSE
  /\ counter2 = FALSE
  /\ input = <<>>
  /\ result = NoResult
  /\ read_at = 0
  /\ read_width = 0
  /\ HttpIdle

\* key encoding does no checked arithmetic: the build profile is immaterial
Init == InitKeys /\ overflow_checks = FALSE

\* the decoder runs in a build with or without overflow checks
InitDecode == InitKeys /\ overflow_checks \in BOOLEAN

\* Each behaviour is one call on a fresh value object: keys hold no state
\* between calls, so every action starts from the initial state.

\* a storage adapter takes a key, routes it (subspace, is_counter) and
\* serializes it under a flag word
Serialize ==
  /\ op = "init"
  /\ UNCHANGED http_vars
  /\ \E k \in Keys, f \in FlagWords :
    /\ op' = "serialize"
    /\ key' = k
    /\ flags' = f
    /\ buf' = Key_serialize(k, f)
    /\ sub' = Key_subspace(k)
    /\ size_hint' = IF k.kt = "ValueKey" THEN ValueClass_serialized_size(k.class) ELSE 0
    /\ counter' = IF k.kt = "ValueKey" THEN ValueKey_is_counter(k) ELSE FALSE
    /\ UNCHANGED <<other, buf2, input, result,
                   overflow_checks, read_at, read_width, counter2>>

\* two keys of one class are serialized without subspace, as for a range scan
SerializePair ==
  /\ op = "init"
  /\ UNCHANGED http_vars
  /\ \E family \in Families :
    \E k1 \in family, k2 \in family :
      /\ op' = "pair"
      /\ key' = k1
      /\ other' = k2
      /\ flags' = 0
      /\ buf' = Key_serialize(k1, 0)
      /\ buf2' = Key_serialize(k2, 0)
      /\ sub' = Key_subspace(k1)
      /\ UNCHANGED <<size_hint, counter, input, result,
                     overflow_checks, read_at, read_width, counter2>>

ReportQueueTags ==
  {"DmarcReportHeader", "TlsReportHeader", "DmarcReportEvent", "TlsReportEvent"}

\* a report key written by the queue is read back
DecodeKey ==
  /\ op = "init"
  /\ UNCHANGED http_vars
  /\ \E tag \in ReportQueueTags, e \in ReportEvents :
    LET k == ValueKey(Mk32(0), 0, Mk32(0),
                      [tag |-> "Queue", queue |-> [tag |-> tag, event |-> e]])
    IN  /\ op' = "decode_key"
        /\ key' = k
        /\ flags' = 0
        /\ buf' = Key_serialize(k, 0)
        /\ input' = buf'
        /\ result' = ReportEvent_deserialize(input', overflow_checks)
        /\ UNCHANGED <<other, buf2, sub, size_hint, counter,
                       overflow_checks, read_at, read_width, counter2>>

\* the byte slices a store can hand back: any domain bytes, cut at any length
RawInputs ==
  UNION { { SubSeq(full, 1, n) : n \in 0..Len(full) } :
          full \in { <<v>> \o to_be_bytes_u64(d) \o m \o to_be_bytes_u64(p)
                       \o to_be_bytes_u64(q) \o <<t>> :
                     v \in {0, 1}, d \in {Mk64(256)}, m \in BytesUpTo(DomainBytes, MaxDomainLen),
                     p \in {Mk64(1), U64_MAX}, q \in {Mk64(258)}, t \in {0, 1} } }

DecodeBytes ==
  /\ op = "init"
  /\ UNCHANGED http_vars
  /\ \E bytes \in RawInputs :
    /\ op' = "decode_bytes"
    /\ key' = NoKey
    /\ input' = bytes
    /\ result' = ReportEvent_deserialize(bytes, overflow_checks)
    /\ UNCHANGED <<other, flags, buf, buf2, sub, size_hint, counter,
                   overflow_checks, read_at, read_width, counter2>>

\* Keys of different variants that share a subspace, and token keys of every
\* token length: the universes of the collision and scan checks.
U64_MAX_LESS_1 == <<Limb - 1, Limb - 1, Limb - 1, Limb - 2>>
SendImipKeys ==
  TaskKeys({[tag |-> "SendImip", due |-> u, is_payload |-> l] :
              u \in U64s \cup {U64_MAX_LESS_1}, l \in BOOLEAN})
AllTaskKeys ==
  SendImipKeys
  \cup TaskKeys({[tag |-> "IndexEmail", due |-> u, hash |-> h] :
                   u \in U64s, h \in BlobHashes})
  \cup TaskKeys({[tag |-> "BayesTrain", due |-> u, hash |-> h, learn_spam |-> l] :
                   u \in U64s, h \in BlobHashes, l \in BOOLEAN})
  \cup TaskKeys({[tag |-> "SendAlarm", due |-> u, event_id |-> e, alarm_id |-> l] :
                   u \in U64s, e \in {1}, l \in U16s})

\* a SendImip row is compared with a row of the same task queue, as a range
\* scan of the queue compares them
ScanTaskQueue ==
  /\ op = "init"
  /\ UNCHANGED http_vars
  /\ \E k1 \in SendImipKeys, k2 \in AllTaskKeys :
      /\ op' = "task_pair"
      /\ key' = k1
      /\ other' = k2
      /\ flags' = 0
      /\ buf' = Key_serialize(k1, 0)
      /\ buf2' = Key_serialize(k2, 0)
      /\ sub' = Key_subspace(k1)
      /\ UNCHANGED <<size_hint, counter, input, result,
                     overflow_checks, read_at, read_width, counter2>>

\* tag fields on both sides of the marker bit, ids whose LEB128 is a text
TagFields == {5, 84, 133}
TagIds == {Mk32(97), Mk32(129), Mk32(256)}
TagKeys(values) ==
  { BitmapKey(a, 0, d, [tag |-> "Tag", field |-> f, value |-> v]) :
      a \in AccountIds, d \in {Mk32(1), U32_MAX}, f \in TagFields, v \in values }

\* a text tag and an id tag are written to the tag bitmap subspace
SerializeTagPair ==
  /\ op = "init"
  /\ UNCHANGED http_vars
  /\ \E k1 \in TagKeys({[tag |-> "Text", text |-> t] : t \in ByteStrings}),
        k2 \in TagKeys({[tag |-> "Id", id |-> i] : i \in TagIds}),
        f \in FlagWords :
      /\ op' = "tag_pair"
      /\ key' = k1
      /\ other' = k2
      /\ flags' = f
      /\ buf' = Key_serialize(k1, f)
      /\ buf2' = Key_serialize(k2, f)
      /\ sub' = Key_subspace(k1)
      /\ UNCHANGED <<size_hint, counter, input, result,
                     overflow_checks, read_at, read_width, counter2>>

\* tokens of every length around the 8-byte cut, over two hashes that agree
\* on their first byte only
TokenHashes ==
  { [hash |-> h, len |-> n] :
      h \in {<<1, 1, 1, 1, 1, 1, 1, 1>>, <<1, 0, 8, 9, 0, 1, 0, 9>>},
      n \in {0, 1, 2, 7, 8, 9} }
TokenKeys ==
  { { ValueKey(Mk32(1), c, d, [tag |-> "FtsIndex", hash |-> h]) :
        c \in {0, 1}, d \in {Mk32(1), Mk32(256)}, h \in TokenHashes },
    { BitmapKey(Mk32(1), c, d, [tag |-> "Text", field |-> f, token |-> h]) :
        c \in {0, 1}, d \in {Mk32(1), Mk32(256)}, f \in {0, 1}, h \in TokenHashes } }

\* two token keys of one kind are written to one subspace
SerializeTokenPair ==
  /\ op = "init"
  /\ UNCHANGED http_vars
  /\ \E family \in TokenKeys :
      \E k1 \in family, k2 \in family :
        /\ op' = "token_pair"
        /\ key' = k1
        /\ other' = k2
        /\ flags' = 0
        /\ buf' = Key_serialize(k1, 0)
        /\ buf2' = Key_serialize(k2, 0)
        /\ sub' = Key_subspace(k1)
        /\ UNCHANGED <<size_hint, counter, input, result,
                       overflow_checks, read_at, read_width, counter2>>

U32_MAX_LESS_1 == <<Limb - 1, Limb - 2>>
CommitKeys ==
  { ValueKey(a, c, d, [tag |-> "Blob", op |-> [tag |-> "Commit", hash |-> h]]) :
      a \in {Mk32(0), Mk32(1)}, c \in {0, 1}, d \in {Mk32(0), Mk32(1)},
      h \in BlobHashes }
LinkKeys ==
  { ValueKey(a, c, d, [tag |-> "Blob", op |-> [tag |-> "Link", hash |-> h]]) :
      a \in {Mk32(1), U32_MAX_LESS_1, U32_MAX}, c \in Collections,
      d \in {Mk32(1), U32_MAX}, h \in BlobHashes }

\* the commit marker of a blob and a link to a blob are written to the link
\* subspace
SerializeCommitLink ==
  /\ op = "init"
  /\ UNCHANGED http_vars
  /\ \E k1 \in CommitKeys, k2 \in LinkKeys :
      /\ op' = "blob_pair"
      /\ key' = k1
      /\ other' = k2
      /\ flags' = 0
      /\ buf' = Key_serialize(k1, 0)
      /\ buf2' = Key_serialize(k2, 0)
      /\ sub' = Key_subspace(k1)
      /\ UNCHANGED <<size_hint, counter, input, result,
                     overflow_checks, read_at, read_width, counter2>>

\* slices of every length up to one past the widest integer, and offsets
\* inside, at the end of, past the end of the slice and within 9 of 2^64
ReadSlices ==
  { SubSeq(full, 1, n) : full \in {<<1, 2, 3, 4, 5, 6, 7, 8, 9>>,
                                   <<255, 0, 255, 0, 128, 0, 1, 0, 2>>},
                         n \in 0..9 }
ReadOffsets == 0..10 \cup {-1, -2, -3, -4, -5, -8, -9}

\* a caller reads a big-endian integer at an offset of a stored key
ReadBigEndian ==
  /\ op = "init"
  /\ UNCHANGED http_vars
  /\ \E s \in ReadSlices, i \in ReadOffsets, n \in {U16_LEN, U32_LEN, U64_LEN} :
      /\ op' = "read"
      /\ input' = s
      /\ read_at' = i
      /\ read_width' = n
      /\ result' = CASE n = U16_LEN -> deserialize_be_u16(s, i, overflow_checks)
                     [] n = U32_LEN -> deserialize_be_u32(s, i, overflow_checks)
                     [] n = U64_LEN -> deserialize_be_u64(s, i, overflow_checks)
      /\ UNCHANGED <<key, other, flags, buf, buf2, sub, size_hint, counter,
                     overflow_checks, counter2>>

NextKeys == Serialize
NextPairs == SerializePair
NextDecode == DecodeKey \/ DecodeBytes \/ ReadBigEndian

\* the variant of a ValueClass value down to the innermost enum, with the
\* flags that select a discriminator byte (learn_spam, is_payload)
VariantOf(class) ==
  CASE class.tag = "TaskQueue" ->
         <<"TaskQueue", class.task.tag,
           (IF class.task.tag = "BayesTrain" THEN class.task.learn_spam
            ELSE IF class.task.tag = "SendImip" THEN class.task.is_payload
            ELSE FALSE)>>
    [] class.tag = "Blob" -> <<"Blob", class.op.tag, FALSE>>
    [] class.tag = "InMemory" -> <<"InMemory", class.lookup.tag, FALSE>>
    [] class.tag = "Directory" -> <<"Directory", class.directory.tag, FALSE>>
    [] class.tag = "Queue" -> <<"Queue", class.queue.tag, FALSE>>
    [] class.tag = "Report" -> <<"Report", class.report.tag, FALSE>>
    [] class.tag = "Telemetry" -> <<"Telemetry", class.telemetry.tag, FALSE>>
    [] OTHER -> <<class.tag, "", FALSE>>

\* two payloads of every ValueClass variant
TwoOf(S) ==
  LET a == CHOOSE x \in S : TRUE
  IN  IF S = {a} THEN {a} ELSE {a, CHOOSE x \in S \ {a} : TRUE}
ClassSamples ==
  UNION { TwoOf({k.class : k \in F}) :
          F \in {G \in Families : \A k \in G : k.kt = "ValueKey"} }

\* two values of one ValueClass variant are classified in one collection
ClassifyPair ==
  /\ op = "init"
  /\ UNCHANGED http_vars
  /\ \E c1 \in ClassSamples, c2 \in ClassSamples, col \in Collections :
      /\ c1.tag = c2.tag
      /\ op' = "classify"
      /\ key' = ValueKey(Mk32(0), col, Mk32(0), c1)
      /\ other' = ValueKey(Mk32(0), col, Mk32(0), c2)
      /\ counter' = ValueKey_is_counter(key')
      /\ counter2' = ValueKey_is_counter(other')
      /\ sub' = Key_subspace(key')
      /\ UNCHANGED <<flags, buf, buf2, size_hint, input, result,
                     overflow_checks, read_at, read_width>>

\* the variants that share a subspace behind a discriminator byte
SharedDirectory ==
  Dir({[tag |-> "NameToId", name |-> b] : b \in ByteStrings}
      \cup {[tag |-> "EmailToId", email |-> b] : b \in ByteStrings}
      \cup {[tag |-> t, uid |-> u] :
              t \in {"Principal", "UsedQuota"}, u \in {Mk32(97), Mk32(129)}}
      \cup {[tag |-> "MemberOf", principal_id |-> u, member_of |-> m] :
              u \in {Mk32(1), U32_MAX}, m \in {Mk32(1), U32_MAX}}
      \cup {[tag |-> "Members", principal_id |-> u, has_member |-> m] :
              u \in {Mk32(1), U32_MAX}, m \in {Mk32(1), U32_MAX}}
      \cup {[tag |-> "Index", word |-> b, principal_id |-> Mk32(1)] :
              b \in ByteStrings})
SharedQueue ==
  Que({[tag |-> t, key |-> b] : t \in {"QuotaCount", "QuotaSize"}, b \in ByteStrings}
      \cup {[tag |-> t, event |-> e] :
              t \in ReportQueueTags,
              e \in {r \in ReportEvents : r.due = Mk64(1)}})
SharedReport ==
  GlobalKeys({[tag |-> "Report", report |-> [tag |-> t, id |-> i, expires |-> e]] :
                t \in {"Tls", "Dmarc", "Arf"}, i \in {Mk64(1), U64_MAX},
                e \in {Mk64(1), Mk64(256)}})
SharedTask ==
  { ValueKey(Mk32(1), 0, d, [tag |-> "TaskQueue", task |-> t]) :
      d \in {Mk32(1), U32_MAX},
      t \in {[tag |-> "IndexEmail", due |-> u, hash |-> h] :
                u \in {Mk64(1), U64_MAX}, h \in BlobHashes}
          \cup {[tag |-> "BayesTrain", due |-> u, hash |-> h, learn_spam |-> l] :
                  u \in {Mk64(1), U64_MAX}, h \in BlobHashes, l \in BOOLEAN}
          \cup {[tag |-> "SendAlarm", due |-> u, event_id |-> 1, alarm_id |-> l] :
                  u \in {Mk64(1), U64_MAX}, l \in U16s}
          \cup {[tag |-> "SendImip", due |-> u, is_payload |-> l] :
                  u \in {Mk64(1), U64_MAX}, l \in BOOLEAN} }
SharedCounter ==
  { ValueKey(a, 1, d, [tag |-> "Property", field |-> 84]) :
      a \in AccountIds, d \in DocIds }
  \cup { ValueKey(a, c, Mk32(0), [tag |-> t]) :
           a \in AccountIds, c \in {0, 1}, t \in {"DocumentId", "ChangeId"} }
SharedKeys ==
  SharedDirectory \cup SharedQueue \cup SharedReport \cup SharedTask
    \cup SharedCounter

\* two keys of different variants are written to the subspace they share
SerializeSubspacePair ==
  /\ op = "init"
  /\ UNCHANGED http_vars
  /\ \E k1 \in SharedKeys, k2 \in SharedKeys, f \in FlagWords :
      /\ Key_subspace(k1) = Key_subspace(k2)
      /\ VariantOf(k1.class) # VariantOf(k2.class)
      /\ op' = "subspace_pair"
      /\ key' = k1
      /\ other' = k2
      /\ flags' = f
      /\ buf' = Key_serialize(k1, f)
      /\ buf2' = Key_serialize(k2, f)
      /\ sub' = Key_subspace(k1)
      /\ UNCHANGED <<size_hint, counter, input, result,
                     overflow_checks, read_at, read_width, counter2>>

\* the entries of the blob link subspace: commit markers, links whose ids
\* reach the sentinel values, and link ids on both sides of 2^32
BlobLinkKeys ==
  { ValueKey(a, c, d, [tag |-> "Blob", op |-> b]) :
      a \in {Mk32(1), U32_MAX}, c \in {0, 1, 255}, d \in {Mk32(1), U32_MAX},
      b \in {[tag |-> t, hash |-> h] : t \in {"Commit", "Link"}, h \in BlobHashes}
           \cup {[tag |-> "LinkId", hash |-> h, id |-> i] :
                   h \in BlobHashes,
                   i \in {Mk64(1), <<0, 1, 0, 0>>, <<0, 1, 0, 1>>, U64_MAX}} }

\* two entries are written to the blob link subspace
SerializeBlobPair ==
  /\ op = "init"
  /\ UNCHANGED http_vars
  /\ \E k1 \in BlobLinkKeys, k2 \in BlobLinkKeys :
      /\ op' = "blob_link_pair"
      /\ key' = k1
      /\ other' = k2
      /\ flags' = 0
      /\ buf' = Key_serialize(k1, 0)
      /\ buf2' = Key_serialize(k2, 0)
      /\ sub' = Key_subspace(k1)
      /\ UNCHANGED <<size_hint, counter, input, result,
                     overflow_checks, read_at, read_width, counter2>>

\* flag words with and without bits other than WITH_SUBSPACE
WideFlagWords == {0, WITH_SUBSPACE, 2, 2 + WITH_SUBSPACE}

\* one key is serialized under two flag words that agree on WITH_SUBSPACE
SerializeFlags ==
  /\ op = "init"
  /\ UNCHANGED http_vars
  /\ \E k \in Keys, f1 \in WideFlagWords, f2 \in WideFlagWords :
      /\ HasFlag(f1, WITH_SUBSPACE) = HasFlag(f2, WITH_SUBSPACE)
      /\ f1 # f2
      /\ op' = "flag_pair"
      /\ key' = k
      /\ other' = k
      /\ flags' = f1
      /\ buf' = Key_serialize(k, f1)
      /\ buf2' = Key_serialize(k, f2)
      /\ sub' = Key_subspace(k)
      /\ UNCHANGED <<size_hint, counter, input, result,
                     overflow_checks, read_at, read_width, counter2>>

NextMixed ==
  \/ SerializeFlags
  \/ SerializeBlobPair
  \/ SerializeSubspacePair
  \/ ScanTaskQueue \/ SerializeTagPair \/ SerializeTokenPair
  \/ SerializeCommitLink \/ ClassifyPair

SpecKeys == Init /\ [][NextKeys]_vars
SpecPairs == Init /\ [][NextPairs]_vars
SpecDecode == InitDecode /\ [][NextDecode]_vars

SpecMixed == Init /\ [][NextMixed]_vars

-----------------------------------------------------------------------------
(* Properties of the key encoder, checked under SpecKeys *)

Serialized == op = "serialize"
IsValueKey == Serialized /\ key.kt = "ValueKey"

\* C1 Subspace agreement: for every key type and variant, byte 0 of
\* serialize(WITH_SUBSPACE) is the value subspace() returns for that key.
C1_SubspaceAgreement ==
  (Serialized /\ HasFlag(flags, WITH_SUBSPACE)) =>
    (Len(buf) >= 1 /\ buf[1] = sub)

C1_Witness ==
  /\ Serialized /\ flags = WITH_SUBSPACE
  /\ key.kt = "BitmapKey" /\ key.class.tag = "Text"
  /\ buf[1] = SUBSPACE_BITMAP_TEXT /\ sub = SUBSPACE_BITMAP_TEXT

\* C2 Subspace-prefix presence: serialize(WITH_SUBSPACE) is the one byte
\* subspace() followed by serialize(0), and nothing else changes.
C2_SubspacePrefix ==
  (Serialized /\ HasFlag(flags, WITH_SUBSPACE)) =>
    buf = <<sub>> \o Key_serialize(key, 0)

C2_Witness ==
  /\ Serialized /\ flags = WITH_SUBSPACE
  /\ key.kt = "IndexKeyPrefix"
  /\ buf = <<SUBSPACE_INDEXES>> \o to_be_bytes_u32(key.account_id)
             \o <<key.collection, key.field>>

\* C5 Prefix containment: under either flag value the serialization of
\* IndexKeyPrefix{a,c,f} is a strict byte prefix of that of IndexKey{a,c,f,k,d}.
PrefixOf(k) ==
  [kt |-> "IndexKeyPrefix", account_id |-> k.account_id,
   collection |-> k.collection, field |-> k.field]

C5_PrefixContainment ==
  (Serialized /\ key.kt = "IndexKey") =>
    IsStrictPrefix(Key_serialize(PrefixOf(key), flags), buf)

C5_Witness ==
  /\ Serialized /\ key.kt = "IndexKey" /\ flags = WITH_SUBSPACE
  /\ key.key = <<>> /\ key.collection # key.field
  /\ Len(buf) = Len(Key_serialize(PrefixOf(key), flags)) + U32_LEN

\* C6 (as stated) Size hint: serialized_size() <= len(serialize(0)) <=
\* serialized_size() + 1 for every ValueClass variant and payload.
C6_SizeHintNeverExceeds ==
  (IsValueKey /\ flags = 0) =>
    (size_hint <= Len(buf) /\ Len(buf) <= size_hint + 1)

\* C6 (amended) Size hint: the hint is within one byte of the length of
\* serialize(0) in either direction for every variant without a LEB128 field;
\* with LEB128 fields the length is within hint-2..hint+2 (Principal,
\* UsedQuota) and hint-7..hint+11 (Telemetry Metric).
HasLeb128(class) ==
  \/ class.tag = "Directory" /\ class.directory.tag \in {"Principal", "UsedQuota"}
  \/ class.tag = "Telemetry" /\ class.telemetry.tag = "Metric"

C6_SizeHintWithinOne ==
  (IsValueKey /\ flags = 0) =>
    IF ~HasLeb128(key.class)
      THEN size_hint - 1 <= Len(buf) /\ Len(buf) <= size_hint + 1
    ELSE IF key.class.tag = "Directory"
      THEN size_hint - 2 <= Len(buf) /\ Len(buf) <= size_hint + 2
    ELSE size_hint - 7 <= Len(buf) /\ Len(buf) <= size_hint + 11

C6_Witness ==
  /\ IsValueKey /\ flags = 0
  /\ key.class.tag = "Property"
  /\ size_hint = 11 /\ Len(buf) = 10

\* C9 Counter classification: is_counter(collection) is true exactly for
\* Directory(UsedQuota), InMemory(Counter), Queue(QuotaCount), Queue(QuotaSize),
\* DocumentId, ChangeId, and Property(84) with collection 1.
ListedAsCounter(class, collection) ==
  \/ class.tag = "Directory" /\ class.directory.tag = "UsedQuota"
  \/ class.tag = "InMemory" /\ class.lookup.tag = "Counter"
  \/ class.tag = "Queue" /\ class.queue.tag = "QuotaCount"
  \/ class.tag = "Queue" /\ class.queue.tag = "QuotaSize"
  \/ class.tag = "DocumentId"
  \/ class.tag = "ChangeId"
  \/ class.tag = "Property" /\ class.field = 84 /\ collection = 1

C9_CounterClassification ==
  IsValueKey => (counter <=> ListedAsCounter(key.class, key.collection))

C9_Witness ==
  /\ IsValueKey /\ key.class.tag = "Property"
  /\ key.class.field = 84 /\ key.collection = 1 /\ counter

\* C10 Collection-dependence of routing: Property(field) goes to COUNTER
\* exactly when field = 84 and collection = 1 and to PROPERTY otherwise; every
\* other variant goes to the same subspace whatever the collection.
C10_CollectionDependence ==
  IsValueKey =>
    IF key.class.tag = "Property"
      THEN sub = (IF key.class.field = 84 /\ key.collection = 1
                  THEN SUBSPACE_COUNTER ELSE SUBSPACE_PROPERTY)
      ELSE \A c \in 0..255 : ValueClass_subspace(key.class, c) = sub

C10_Witness ==
  /\ IsValueKey /\ key.class.tag = "Property"
  /\ key.class.field = 84 /\ key.collection = 255 /\ sub = SUBSPACE_PROPERTY

\* C24 Counter/subspace consistency: for every ValueClass variant other than
\* Any and every collection, is_counter is true exactly when subspace is
\* SUBSPACE_COUNTER, SUBSPACE_QUOTA or SUBSPACE_IN_MEMORY_COUNTER.
CounterSubspaces ==
  {SUBSPACE_COUNTER, SUBSPACE_QUOTA, SUBSPACE_IN_MEMORY_COUNTER}
C24_CounterSubspaceConsistency ==
  (IsValueKey /\ key.class.tag # "Any") =>
    (counter <=> sub \in CounterSubspaces)

C24_Witness ==
  /\ IsValueKey /\ key.class.tag = "Directory"
  /\ key.class.directory.tag = "UsedQuota"
  /\ counter /\ sub = SUBSPACE_QUOTA

\* the first min(len, 8) bytes of a token hash, and its length byte if any
TruncatedHash(h) == SubSeq(h.hash, 1, IF h.len < 8 THEN h.len ELSE 8)
LengthByte(h) == IF h.len >= 8 THEN <<h.len>> ELSE <<>>
IsFtsIndex(k) == k.kt = "ValueKey" /\ k.class.tag = "FtsIndex"
IsBitmapText(k) == k.kt = "BitmapKey" /\ k.class.tag = "Text"

\* C15 Token-hash truncation layout: an FtsIndex key is BE32(account_id),
\* hash[0..min(len,8)], the byte len iff len >= 8, collection,
\* BE32(document_id); a BitmapClass::Text key is the same with the field byte
\* after collection.
C15_TokenHashLayout ==
  (Serialized /\ flags = 0) =>
    /\ IsFtsIndex(key) =>
         buf = to_be_bytes_u32(key.account_id) \o TruncatedHash(key.class.hash)
                 \o LengthByte(key.class.hash) \o <<key.collection>>
                 \o to_be_bytes_u32(key.document_id)
    /\ IsBitmapText(key) =>
         buf = to_be_bytes_u32(key.account_id) \o TruncatedHash(key.class.token)
                 \o LengthByte(key.class.token)
                 \o <<key.collection, key.class.field>>
                 \o to_be_bytes_u32(key.document_id)

C15_Witness ==
  /\ Serialized /\ flags = 0 /\ IsFtsIndex(key)
  /\ key.class.hash.len = 9
  /\ Len(buf) = U32_LEN + 8 + 1 + 1 + U32_LEN
  /\ buf[U32_LEN + 9] = 9

\* C18 Property key layout: ValueKey::property(..).serialize(WITH_SUBSPACE)
\* is the 11 bytes SUBSPACE_PROPERTY, BE32(account_id), collection, field,
\* BE32(document_id); for field 84 in collection 1 only the first byte
\* changes, to SUBSPACE_COUNTER.
C18_PropertyLayout ==
  (IsValueKey /\ key.class.tag = "Property" /\ flags = WITH_SUBSPACE) =>
    /\ Len(buf) = 11
    /\ buf = <<IF key.class.field = 84 /\ key.collection = 1
                THEN SUBSPACE_COUNTER ELSE SUBSPACE_PROPERTY>>
               \o to_be_bytes_u32(key.account_id)
               \o <<key.collection, key.class.field>>
               \o to_be_bytes_u32(key.document_id)

C18_Witness ==
  /\ IsValueKey /\ key.class.tag = "Property" /\ flags = WITH_SUBSPACE
  /\ key.class.field = 84 /\ key.collection = 1
  /\ key.document_id = Mk32(256)
  /\ buf[1] = SUBSPACE_COUNTER /\ buf[6] = 1 /\ buf[7] = 84 /\ buf[10] = 1

-----------------------------------------------------------------------------
(* Ordering of keys, checked under SpecPairs *)

\* The key-forming fields of a key in declared order.  An item is a fixed-width
\* integer ("int": its limbs, or one byte), a variable-length byte field
\* ("bytes") or a LEB128-encoded integer ("leb": its limbs).
FInt(v) == [k |-> "int", v |-> v]
FByte(v) == [k |-> "int", v |-> <<v>>]
FBytes(v) == [k |-> "bytes", v |-> v]
FLeb(v) == [k |-> "leb", v |-> v]
FHash(h) ==
  <<FBytes(BitmapHash_get(h)), FBytes(IF h.len >= 8 THEN <<h.len>> ELSE <<>>)>>
FEvent(variant, e) ==
  <<FByte(variant), FInt(e.due), FBytes(e.domain), FInt(e.policy_hash), FInt(e.seq_id)>>

ValueKeyFields(k) ==
  LET a == FInt(k.account_id)
      c == FByte(k.collection)
      d == FInt(k.document_id)
      class == k.class
  IN
  CASE class.tag = "Property" -> <<a, c, FByte(class.field), d>>
    [] class.tag = "FtsIndex" -> <<a>> \o FHash(class.hash) \o <<c, d>>
    [] class.tag = "Acl" -> <<FInt(class.grant_account_id), a, c, d>>
    [] class.tag = "TaskQueue" ->
         (LET t == class.task IN
          CASE t.tag = "IndexEmail" -> <<FInt(t.due), a, FByte(0), d, FInt(t.hash)>>
            [] t.tag = "BayesTrain" ->
                 <<FInt(t.due), a, FByte(IF t.learn_spam THEN 1 ELSE 2), d, FInt(t.hash)>>
            [] t.tag = "SendAlarm" ->
                 <<FInt(t.due), a, FByte(3), d, FByte(t.event_id), FByte(t.alarm_id)>>
            [] t.tag = "SendImip" ->
                 (IF t.is_payload THEN <<FInt(U64_MAX), a, FByte(5), d, FInt(t.due)>>
                  ELSE <<FInt(t.due), a, FByte(4), d>>))
    [] class.tag = "Blob" ->
         (LET b == class.op IN
          CASE b.tag = "Reserve" -> <<a, FInt(b.hash), FInt(b.until)>>
            [] b.tag = "Commit" -> <<FInt(b.hash), FInt(U32_MAX), FByte(0), FInt(U32_MAX)>>
            [] b.tag = "Link" -> <<FInt(b.hash), a, c, d>>
            [] b.tag = "LinkId" ->
                 <<FInt(b.hash), FInt(U64_high(b.id)), FByte(U8_MAX), FInt(U64_low(b.id))>>)
    [] class.tag = "Config" -> <<FBytes(class.key)>>
    [] class.tag = "InMemory" -> <<FBytes(class.lookup.key)>>
    [] class.tag = "Directory" ->
         (LET y == class.directory IN
          CASE y.tag = "NameToId" -> <<FByte(0), FBytes(y.name)>>
            [] y.tag = "EmailToId" -> <<FByte(1), FBytes(y.email)>>
            [] y.tag = "Principal" -> <<FByte(2), FLeb(y.uid)>>
            [] y.tag = "UsedQuota" -> <<FByte(4), FLeb(y.uid)>>
            [] y.tag = "MemberOf" -> <<FByte(5), FInt(y.principal_id), FInt(y.member_of)>>
            [] y.tag = "Members" -> <<FByte(6), FInt(y.principal_id), FInt(y.has_member)>>
            [] y.tag = "Index" -> <<FByte(7), FBytes(y.word), FInt(y.principal_id)>>)
    [] class.tag = "Queue" ->
         (LET q == class.queue IN
          CASE q.tag = "Message" -> <<FInt(q.queue_id)>>
            [] q.tag = "MessageEvent" ->
                 <<FInt(q.event.due), FInt(q.event.queue_id), FInt(q.event.queue_name)>>
            [] q.tag = "DmarcReportHeader" -> FEvent(0, q.event) \o <<FByte(0)>>
            [] q.tag = "TlsReportHeader" -> FEvent(0, q.event) \o <<FByte(1)>>
            [] q.tag = "DmarcReportEvent" -> FEvent(1, q.event)
            [] q.tag = "TlsReportEvent" -> FEvent(2, q.event)
            [] q.tag = "QuotaCount" -> <<FByte(0), FBytes(q.key)>>
            [] q.tag = "QuotaSize" -> <<FByte(1), FBytes(q.key)>>)
    [] class.tag = "Report" ->
         <<FByte(CASE class.report.tag = "Tls" -> 0
                   [] class.report.tag = "Dmarc" -> 1
                   [] class.report.tag = "Arf" -> 2),
           FInt(class.report.expires), FInt(class.report.id)>>
    [] class.tag = "Telemetry" ->
         (LET t == class.telemetry IN
          CASE t.tag = "Span" -> <<FInt(t.span_id)>>
            [] t.tag = "Index" -> <<FBytes(t.value), FInt(t.span_id)>>
            [] t.tag = "Metric" -> <<FInt(t.timestamp), FLeb(t.metric_id), FLeb(t.node_id)>>)
    [] class.tag = "DocumentId" -> <<a, c>>
    [] class.tag = "ChangeId" -> <<a>>
    [] class.tag = "Any" -> <<FBytes(class.any.key)>>

BitmapKeyFields(k) ==
  LET a == FInt(k.account_id)
      c == FByte(k.collection)
      d == FInt(k.document_id)
      class == k.class
  IN
  CASE class.tag = "DocumentIds" -> <<a, c, d>>
    [] class.tag = "Tag" /\ class.value.tag = "Id" ->
         <<a, c, FByte(class.field), FLeb(class.value.id), d>>
    [] class.tag = "Tag" /\ class.value.tag = "Text" ->
         <<a, c, FByte(BitOr_marker(class.field)), FBytes(class.value.text), d>>
    [] class.tag = "Text" -> <<a>> \o FHash(class.token) \o <<c, FByte(class.field), d>>

KeyFields(k) ==
  CASE k.kt = "ValueKey" -> ValueKeyFields(k)
    [] k.kt = "BitmapKey" -> BitmapKeyFields(k)
    [] k.kt = "IndexKeyPrefix" ->
         <<FInt(k.account_id), FByte(k.collection), FByte(k.field)>>
    [] k.kt = "IndexKey" ->
         <<FInt(k.account_id), FByte(k.collection), FByte(k.field),
           FBytes(k.key), FInt(k.document_id)>>
    [] k.kt = "LogKey" ->
         <<FInt(k.account_id), FByte(k.collection), FInt(k.change_id)>>
    [] k.kt = "AnyKey" -> <<FBytes(k.key)>>

\* t1 < t2, lexicographically over the fields: integers numerically, byte
\* strings lexicographically
RECURSIVE TupleLt(_, _)
TupleLt(t1, t2) ==
  IF t2 = <<>> THEN FALSE
  ELSE IF t1 = <<>> THEN TRUE
  ELSE IF Head(t1).v # Head(t2).v THEN BytesLt(Head(t1).v, Head(t2).v)
  ELSE TupleLt(Tail(t1), Tail(t2))

Min(x, y) == IF x < y THEN x ELSE y

\* the two tuples put every field at the same byte offset: byte fields that
\* another field follows have equal lengths, and LEB128 fields are equal or
\* both encode in one byte
Aligned(t1, t2) ==
  \A i \in 1..Min(Len(t1), Len(t2)) :
    /\ (t1[i].k = "bytes" /\ (i < Len(t1) \/ i < Len(t2))) =>
         Len(t1[i].v) = Len(t2[i].v)
    /\ t1[i].k = "leb" =>
         (t1[i].v = t2[i].v \/ (IsBelow128(t1[i].v) /\ IsBelow128(t2[i].v)))

Paired == op = "pair"

\* C4 (as stated) Monotone encoding: for every key class and any two field
\* tuples t1 < t2 in declared field order, serialize(0) of t1 is
\* lexicographically smaller than serialize(0) of t2.
C4_MonotoneEncoding ==
  (Paired /\ TupleLt(KeyFields(key), KeyFields(other))) => BytesLt(buf, buf2)

\* C4 (amended) Monotone encoding holds for two field tuples of a key class
\* that agree in length on every variable-length byte field followed by
\* another field and whose LEB128 fields are equal or both below 128.
C4_MonotoneWhenAligned ==
  (/\ Paired
   /\ TupleLt(KeyFields(key), KeyFields(other))
   /\ Aligned(KeyFields(key), KeyFields(other))) => BytesLt(buf, buf2)

C4_Witness ==
  /\ Paired /\ key.kt = "IndexKey"
  /\ Len(key.key) = 1 /\ Len(other.key) = 1 /\ key.key # other.key
  /\ key.document_id = U32_MAX /\ other.document_id = Mk32(1)
  /\ TupleLt(KeyFields(key), KeyFields(other))
  /\ Aligned(KeyFields(key), KeyFields(other))
  /\ BytesLt(buf, buf2)

\* the entries of the due-time queues: task queue, queue events, queue reports
IsTask(k) == k.kt = "ValueKey" /\ k.class.tag = "TaskQueue"
IsQueueEntry(k, tags) ==
  k.kt = "ValueKey" /\ k.class.tag = "Queue" /\ k.class.queue.tag \in tags
IsPayload(k) ==
  IsTask(k) /\ k.class.task.tag = "SendImip" /\ k.class.task.is_payload
IsReportEntry(k) == IsQueueEntry(k, ReportQueueTags)
HasDue(k) == IsTask(k) \/ IsQueueEntry(k, {"MessageEvent"}) \/ IsReportEntry(k)
DueOf(k) == IF IsTask(k) THEN k.class.task.due ELSE k.class.queue.event.due
\* the entries whose first written field is due
LeadsWithDue(k) ==
  (IsTask(k) /\ ~IsPayload(k)) \/ IsQueueEntry(k, {"MessageEvent"})
\* the variant byte a report entry starts with
ReportVariant(k) ==
  CASE k.class.queue.tag \in {"DmarcReportHeader", "TlsReportHeader"} -> 0
    [] k.class.queue.tag = "DmarcReportEvent" -> 1
    [] k.class.queue.tag = "TlsReportEvent" -> 2
FirstBytes(b, n) == SubSeq(b, 1, n)
LastBytes(b, n) == SubSeq(b, Len(b) - n + 1, Len(b))
Repeat(byte, n) == [i \in 1..n |-> byte]

\* C11 (as stated) Due-time-first layout: for every task-queue variant, for
\* MessageEvent and for the four queue-report entries, the first 8 bytes of
\* serialize(0) are the big-endian due, so bytewise order is due order.
C11_DueTimeFirst ==
  (Paired /\ HasDue(key)) =>
    /\ Len(buf) >= U64_LEN
    /\ FirstBytes(buf, U64_LEN) = to_be_bytes_u64(DueOf(key))
    /\ BytesLt(buf, buf2) => ~LimbsLt(DueOf(other), DueOf(key))

\* C11 (amended) Due leads the key for IndexEmail, BayesTrain, SendAlarm,
\* SendImip without payload and MessageEvent, and there bytewise order is due
\* order; a SendImip payload key leads with eight 0xFF bytes and carries due
\* in its last 8 bytes; a queue-report key leads with its variant byte and
\* carries due in bytes 1..9, so report keys of one variant byte sort by due.
C11_DueTimeAfterVariant ==
  (Paired /\ HasDue(key)) =>
    /\ LeadsWithDue(key) =>
         /\ FirstBytes(buf, U64_LEN) = to_be_bytes_u64(DueOf(key))
         /\ (LeadsWithDue(other) /\ BytesLt(buf, buf2)) =>
              ~LimbsLt(DueOf(other), DueOf(key))
    /\ IsPayload(key) =>
         /\ FirstBytes(buf, U64_LEN) = Repeat(255, U64_LEN)
         /\ LastBytes(buf, U64_LEN) = to_be_bytes_u64(DueOf(key))
    /\ IsReportEntry(key) =>
         /\ buf[1] = ReportVariant(key)
         /\ SubSeq(buf, 2, U64_LEN + 1) = to_be_bytes_u64(DueOf(key))
         /\ BytesLt(buf, buf2) => ~LimbsLt(DueOf(other), DueOf(key))

C11_Witness ==
  /\ Paired /\ IsReportEntry(key) /\ key.class.queue.tag = "TlsReportEvent"
  /\ DueOf(key) = Mk64(1) /\ DueOf(other) = Mk64(256)
  /\ buf[1] = 2 /\ buf[9] = 1
  /\ BytesLt(buf, buf2)

\* C12 Due-time scan correctness for MessageEvent: ordered by their bytes,
\* MessageEvent keys have non-decreasing due, and for every threshold T each
\* key with due <= T sorts before each key with due > T.
C12_MessageEventScan ==
  (/\ Paired
   /\ IsQueueEntry(key, {"MessageEvent"})
   /\ IsQueueEntry(other, {"MessageEvent"})) =>
    /\ BytesLt(buf, buf2) => ~LimbsLt(DueOf(other), DueOf(key))
    /\ \A T \in U64s \cup {Mk64(0), Mk64(255)} :
         (~LimbsLt(T, DueOf(key)) /\ LimbsLt(T, DueOf(other))) => BytesLt(buf, buf2)

C12_Witness ==
  /\ Paired /\ IsQueueEntry(key, {"MessageEvent"})
  /\ DueOf(key) = Mk64(256) /\ DueOf(other) = U64_MAX
  /\ key.class.queue.event.queue_id = U64_MAX
  /\ other.class.queue.event.queue_id = Mk64(1)
  /\ BytesLt(buf, buf2)

\* C19 IndexKey document ordering: two IndexKey values that differ only in
\* document id, d1 < d2, serialize to equally long strings that agree outside
\* their last four bytes, and the key with d1 is strictly smaller.
C19_DocumentOrdering ==
  (/\ Paired /\ key.kt = "IndexKey"
   /\ [key EXCEPT !.document_id = other.document_id] = other
   /\ LimbsLt(key.document_id, other.document_id)) =>
    /\ Len(buf) = Len(buf2)
    /\ Len(buf) >= U32_LEN
    /\ FirstBytes(buf, Len(buf) - U32_LEN) = FirstBytes(buf2, Len(buf2) - U32_LEN)
    /\ BytesLt(buf, buf2)

C19_Witness ==
  /\ Paired /\ key.kt = "IndexKey"
  /\ [key EXCEPT !.document_id = other.document_id] = other
  /\ key.document_id = Mk32(1) /\ other.document_id = U32_MAX
  /\ Len(key.key) = MaxBytesLen
  /\ BytesLt(buf, buf2)

\* numeric order of (account_id, collection, change_id)
LogLt(k1, k2) ==
  \/ LimbsLt(k1.account_id, k2.account_id)
  \/ /\ k1.account_id = k2.account_id
     /\ \/ k1.collection < k2.collection
        \/ /\ k1.collection = k2.collection
           /\ LimbsLt(k1.change_id, k2.change_id)

\* C22 Log ordering: a LogKey serializes as BE32(account_id), collection,
\* BE64(change_id) in subspace LOGS, so the byte order of two LogKeys is the
\* numeric order of (account_id, collection, change_id); within one account
\* and collection a larger change_id gives a strictly larger key.
C22_LogOrdering ==
  (Paired /\ key.kt = "LogKey") =>
    /\ buf = to_be_bytes_u32(key.account_id) \o <<key.collection>>
               \o to_be_bytes_u64(key.change_id)
    /\ sub = SUBSPACE_LOGS
    /\ BytesLt(buf, buf2) <=> LogLt(key, other)
    /\ (/\ key.account_id = other.account_id
        /\ key.collection = other.collection
        /\ LimbsLt(key.change_id, other.change_id)) => BytesLt(buf, buf2)

C22_Witness ==
  /\ Paired /\ key.kt = "LogKey"
  /\ key.account_id = Mk32(1) /\ other.account_id = U32_MAX
  /\ key.collection = 255 /\ other.collection = 0
  /\ key.change_id = U64_MAX /\ other.change_id = Mk64(1)
  /\ BytesLt(buf, buf2)

-----------------------------------------------------------------------------
(* Properties of the report-event decoder, checked under SpecDecode *)

Decoded == op \in {"decode_key", "decode_bytes"}
DecodedEventKey ==
  /\ op = "decode_key"
  /\ key.class.queue.tag \in {"DmarcReportEvent", "TlsReportEvent"}
DecodedHeaderKey ==
  /\ op = "decode_key"
  /\ key.class.queue.tag \in {"DmarcReportHeader", "TlsReportHeader"}

\* the big-endian u64 held in eight bytes
BigEndian64(b) == [i \in 1..4 |-> b[2 * i - 1] * 256 + b[2 * i]]
\* the bytes at offsets [9, len - 17) of a slice
DomainSlice(s) == SubSeq(s, U64_LEN + 2, Len(s) - (U64_LEN * 2 + 1))
\* the fields found at offsets 1, len - 17 and len - 9, and the domain
FieldsAt(s) ==
  [due |-> BigEndian64(SubSeq(s, 2, 9)),
   policy_hash |-> BigEndian64(SubSeq(s, Len(s) - 16, Len(s) - 9)),
   seq_id |-> BigEndian64(SubSeq(s, Len(s) - 8, Len(s) - 1)),
   domain |-> DomainSlice(s)]

\* C3 (as stated) Report-event round-trip: deserialize applied to the key
\* bytes of QueueClass::DmarcReportEvent(e) or TlsReportEvent(e) returns Ok
\* with a ReportEvent equal to e in all four fields.
C3_EventRoundTrip ==
  DecodedEventKey => result = Ok(key.class.queue.event)

\* C3 (amended) Report round-trip holds for the header keys, not the event
\* keys: on the key bytes of DmarcReportHeader(e) / TlsReportHeader(e) with a
\* UTF-8 domain deserialize returns Ok(e); on the key bytes of
\* DmarcReportEvent(e) / TlsReportEvent(e) it returns DataCorruption when
\* e.domain is empty or e.domain without its last byte is not UTF-8, and
\* otherwise Ok with due = e.due, the domain without its last byte, and
\* policy_hash and seq_id each read one byte early.
C3_HeaderRoundTrip ==
  /\ DecodedHeaderKey =>
       LET e == key.class.queue.event
       IN  IF Utf8Valid(e.domain) THEN result = Ok(e)
           ELSE result = DataCorruption
  /\ DecodedEventKey =>
       LET e == key.class.queue.event
           n == Len(e.domain)
           cut == SubSeq(e.domain, 1, n - 1)
           ph == to_be_bytes_u64(e.policy_hash)
           sq == to_be_bytes_u64(e.seq_id)
       IN  IF n = 0 \/ ~Utf8Valid(cut) THEN result = DataCorruption
           ELSE result =
                  Ok([due |-> e.due,
                      policy_hash |-> BigEndian64(<<e.domain[n]>> \o SubSeq(ph, 1, 7)),
                      seq_id |-> BigEndian64(<<ph[8]>> \o SubSeq(sq, 1, 7)),
                      domain |-> cut])

C3_Witness ==
  /\ DecodedHeaderKey
  /\ key.class.queue.event.domain = <<97, 97>>
  /\ key.class.queue.event.policy_hash = U64_MAX
  /\ result = Ok(key.class.queue.event)

\* C7 Decoder failure mode: deserialize fails only by returning DataCorruption;
\* on every input shorter than 25 bytes and on every input whose domain slice
\* is not valid UTF-8 it returns Err(DataCorruption) and never panics.
C7_FailsOnlyWithDataCorruption ==
  Decoded =>
    /\ result.kind \in {"Ok", "Err"}
    /\ result.kind = "Err" => result = DataCorruption
    /\ (Len(input) < 25 \/ ~Utf8Valid(DomainSlice(input))) => result = DataCorruption

\* C8 (as stated) Decoder field extraction: for every input of length
\* len >= 25 whose bytes [9, len-17) are valid UTF-8, deserialize returns Ok
\* with due at offset 1, policy_hash at len-17, seq_id at len-9 and the domain
\* bytes [9, len-17).
C8_FieldExtractionFrom25 ==
  (Decoded /\ Len(input) >= 25 /\ Utf8Valid(DomainSlice(input))) =>
    result = Ok(FieldsAt(input))

\* C8 (amended) Decoder field extraction holds for every input of length
\* len >= 26 (the empty domain is at len = 26); an input of 25 bytes is
\* rejected with DataCorruption.
C8_FieldExtractionFrom26 ==
  Decoded =>
    /\ (Len(input) >= 26 /\ Utf8Valid(DomainSlice(input))) =>
         result = Ok(FieldsAt(input))
    /\ Len(input) = 25 => result = DataCorruption

C8_Witness ==
  /\ Decoded /\ Len(input) = 26
  /\ result.kind = "Ok"
  /\ result.value.domain = <<>>
  /\ result.value.seq_id = BigEndian64(SubSeq(input, 18, 25))

\* C23 Header-layout round-trip: deserialize applied to serialize(0) of
\* DmarcReportHeader(e) or TlsReportHeader(e) returns Ok with a ReportEvent
\* equal to e, for every domain length, the empty domain included.
C23_HeaderLayoutRoundTrip ==
  DecodedHeaderKey =>
    /\ Len(input) = 1 + U64_LEN + Len(key.class.queue.event.domain)
                      + U64_LEN + U64_LEN + 1
    /\ result.kind = "Ok"
    /\ result.value = key.class.queue.event

C23_Witness ==
  /\ DecodedHeaderKey
  /\ key.class.queue.tag = "TlsReportHeader"
  /\ key.class.queue.event.domain = <<>>
  /\ Len(input) = 26 /\ input[26] = 1
  /\ result.kind = "Ok" /\ result.value.domain = <<>>
  /\ result.value.seq_id = key.class.queue.event.seq_id

\* the big-endian integer held in 2, 4 or 8 bytes, as the readers return it
BigEndianOf(b) ==
  IF Len(b) = U16_LEN THEN b[1] * 256 + b[2]
  ELSE [i \in 1..(Len(b) \div 2) |-> b[2 * i - 1] * 256 + b[2 * i]]

\* C20 Primitive deserializer bounds: for every slice s and offset i,
\* offsets past the slice and near the maximum of usize included,
\* deserialize_be_u16 / _u32 / _u64 return the big-endian integer of
\* s[i .. i+N] when i+N <= s.len() and DataCorruption otherwise, and fail
\* in no other way.
C20_ReadBounds ==
  (op = "read") =>
    IF read_at >= 0 /\ read_at + read_width <= Len(input)
    THEN result = Ok(BigEndianOf(SubSeq(input, read_at + 1, read_at + read_width)))
    ELSE result = DataCorruption

\* what the readers do: the claim's contract wherever i + N fits a usize,
\* in a build without overflow checks also where it does not, and a panic
\* where i + N exceeds the maximum of usize in a build with overflow checks
C20_ReadBoundsUnlessOverflow ==
  (op = "read") =>
    IF read_at < 0 /\ read_at + read_width >= 0 /\ overflow_checks
    THEN result = Panic
    ELSE C20_ReadBounds

-----------------------------------------------------------------------------
(* Scans and collisions across variants, checked under SpecMixed *)

\* C13 SendImip payload hiding: the payload row starts with eight 0xFF bytes
\* and ends with its due, the schedule row starts with its due; for every
\* now <= u64::MAX - 1 a payload row sorts strictly after every row whose
\* leading 8 bytes encode a value <= now.
C13_PayloadHiding ==
  (op = "task_pair") =>
    /\ IsPayload(key) =>
         /\ FirstBytes(buf, U64_LEN) = Repeat(255, U64_LEN)
         /\ LastBytes(buf, U64_LEN) = to_be_bytes_u64(DueOf(key))
    /\ ~IsPayload(key) => FirstBytes(buf, U64_LEN) = to_be_bytes_u64(DueOf(key))
    /\ \A now \in {Mk64(1), Mk64(256), U64_MAX_LESS_1} :
         (/\ IsPayload(key)
          /\ ~BytesLt(to_be_bytes_u64(now), FirstBytes(buf2, U64_LEN))) =>
           BytesLt(buf2, buf)

C13_Witness ==
  /\ op = "task_pair" /\ IsPayload(key) /\ DueOf(key) = Mk64(1)
  /\ other.class.task.tag = "SendImip" /\ ~IsPayload(other)
  /\ DueOf(other) = U64_MAX_LESS_1
  /\ key.account_id = Mk32(1) /\ other.account_id = U32_MAX
  /\ BytesLt(buf2, buf)

\* C14 Bitmap tag discriminator: a text tag writes field | 0x80 and the raw
\* text, an id tag writes field and LEB128(id); with both fields in 0..=0x7F
\* a text-tag key never equals an id-tag key.
C14_TagDiscriminator ==
  (op = "tag_pair") =>
    LET head(k) ==
          (IF flags = WITH_SUBSPACE THEN <<SUBSPACE_BITMAP_TAG>> ELSE <<>>)
            \o to_be_bytes_u32(k.account_id) \o <<k.collection>>
    IN  /\ buf = head(key) \o <<(key.class.field % 128) + 128>>
                   \o key.class.value.text \o to_be_bytes_u32(key.document_id)
        /\ buf2 = head(other) \o <<other.class.field>>
                    \o to_leb128_bytes(other.class.value.id)
                    \o to_be_bytes_u32(other.document_id)
        /\ (key.class.field <= 127 /\ other.class.field <= 127) => buf # buf2

C14_Witness ==
  /\ op = "tag_pair" /\ flags = 0
  /\ key.class.field = 5 /\ other.class.field = 5
  /\ key.class.value.text = <<97>> /\ other.class.value.id = Mk32(97)
  /\ buf[U32_LEN + 2] = 133 /\ buf2[U32_LEN + 2] = 5
  /\ [buf EXCEPT ![U32_LEN + 2] = 5] = buf2

\* C16 Token-hash uniqueness: two FtsIndex keys, or two BitmapClass::Text
\* keys, have the same bytes only if they agree on account_id, collection,
\* document_id (and field), on the token length and on the first min(len, 8)
\* hash bytes.
TokenOf(k) == IF IsFtsIndex(k) THEN k.class.hash ELSE k.class.token
C16_TokenHashUniqueness ==
  (op = "token_pair" /\ buf = buf2) =>
    /\ key.account_id = other.account_id
    /\ key.collection = other.collection
    /\ key.document_id = other.document_id
    /\ IsBitmapText(key) => key.class.field = other.class.field
    /\ TokenOf(key).len = TokenOf(other).len
    /\ TruncatedHash(TokenOf(key)) = TruncatedHash(TokenOf(other))

C16_Witness ==
  /\ op = "token_pair" /\ IsBitmapText(key)
  /\ buf = buf2
  /\ TokenOf(key).len = 1 /\ TokenOf(key).hash # TokenOf(other).hash

\* C17 (as stated) Commit sentinel ordering: the key of BlobOp::Commit{h}
\* sorts after the key of every BlobOp::Link{h} with the same hash, for every
\* account_id, collection and document_id.
SameBlob == op = "blob_pair" /\ key.class.op.hash = other.class.op.hash
C17_CommitAfterEveryLink ==
  SameBlob => BytesLt(buf2, buf)

\* C17 (amended) The Commit key is h, u32::MAX, 0, u32::MAX whatever the
\* key's own ids; it sorts after Link{h} of every account below u32::MAX, and
\* for account u32::MAX after it only when collection is 0 and document_id is
\* below u32::MAX: it equals the link (u32::MAX, 0, u32::MAX) and sorts before
\* every link of account u32::MAX with collection >= 1.
C17_CommitAfterLinkBelowSentinel ==
  SameBlob =>
    /\ buf = key.class.op.hash \o Repeat(255, U32_LEN) \o <<0>> \o Repeat(255, U32_LEN)
    /\ IF other.account_id # U32_MAX THEN BytesLt(buf2, buf)
       ELSE IF other.collection >= 1 THEN BytesLt(buf, buf2)
       ELSE IF other.document_id = U32_MAX THEN buf = buf2
       ELSE BytesLt(buf2, buf)

C17_Witness ==
  /\ SameBlob
  /\ key.account_id = Mk32(1)
  /\ other.account_id = U32_MAX_LESS_1 /\ other.collection = 255
  /\ other.document_id = U32_MAX
  /\ BytesLt(buf2, buf)

\* C21 (as stated) Counter classification stability: two ValueClass values of
\* the same variant, whatever their payloads, get the same is_counter answer
\* in the same collection.
Classified == op = "classify"
SameVariant == VariantOf(key.class) = VariantOf(other.class)
C21_CounterStability ==
  (Classified /\ SameVariant) => counter = counter2

\* C21 (amended) is_counter gives the same answer for equal values, and for
\* two values of the same variant in the same collection unless they are
\* Property values of which exactly one has field 84: in collection 1
\* Property(84) is a counter and Property of any other field is not.
IsProperty84(k) == k.class.tag = "Property" /\ k.class.field = 84
C21_CounterStabilityUpToField84 ==
  Classified =>
    /\ (SameVariant /\ IsProperty84(key) = IsProperty84(other)) =>
         counter = counter2
    /\ (/\ key.class.tag = "Property" /\ other.class.tag = "Property"
        /\ IsProperty84(key) /\ ~IsProperty84(other)) =>
         (IF key.collection = 1 THEN counter /\ ~counter2
          ELSE ~counter /\ ~counter2)

C21_Witness ==
  /\ Classified /\ SameVariant
  /\ key.class.tag = "Directory" /\ key.class.directory.tag = "UsedQuota"
  /\ key.class # other.class
  /\ counter /\ counter2

\* C25 No cross-variant collision inside a shared subspace: in DIRECTORY,
\* QUOTA, REPORT_OUT, REPORT_IN, TASK_QUEUE and COUNTER two keys of different
\* variants never serialize to the same bytes, whatever their payloads.
SharedSubspaces ==
  {SUBSPACE_DIRECTORY, SUBSPACE_QUOTA, SUBSPACE_REPORT_OUT, SUBSPACE_REPORT_IN,
   SUBSPACE_TASK_QUEUE, SUBSPACE_COUNTER}
C25_NoCrossVariantCollision ==
  (/\ op = "subspace_pair"
   /\ sub \in SharedSubspaces
   /\ Key_subspace(other) = sub
   /\ VariantOf(key.class) # VariantOf(other.class)) => buf # buf2

C25_Witness ==
  /\ op = "subspace_pair" /\ flags = WITH_SUBSPACE
  /\ sub = SUBSPACE_REPORT_OUT
  /\ key.class.queue.tag = "DmarcReportHeader"
  /\ other.class.queue.tag = "TlsReportHeader"
  /\ key.class.queue.event = other.class.queue.event
  /\ Len(buf) = Len(buf2)
  /\ SubSeq(buf, 1, Len(buf) - 1) = SubSeq(buf2, 1, Len(buf2) - 1)
  /\ buf # buf2

\* C26 BLOB_LINK entry distinctness: a LinkId key is hash, BE32(id >> 32),
\* 0xFF, BE32(id mod 2^32); it never equals a Commit key nor a Link key whose
\* collection is not 0xFF; two LinkId keys of one hash are equal only if
\* their ids are; a Link key equals a Commit key only for account_id
\* u32::MAX, collection 0 and document_id u32::MAX.
BlobTag(k) == k.class.op.tag
C26_BlobLinkDistinct ==
  (op = "blob_link_pair") =>
    /\ BlobTag(key) = "LinkId" =>
         /\ buf = key.class.op.hash
                    \o <<key.class.op.id[1] \div 256, key.class.op.id[1] % 256,
                          key.class.op.id[2] \div 256, key.class.op.id[2] % 256>>
                    \o <<255>>
                    \o <<key.class.op.id[3] \div 256, key.class.op.id[3] % 256,
                          key.class.op.id[4] \div 256, key.class.op.id[4] % 256>>
         /\ BlobTag(other) = "Commit" => buf # buf2
         /\ (BlobTag(other) = "Link" /\ other.collection # 255) => buf # buf2
         /\ (/\ BlobTag(other) = "LinkId"
             /\ key.class.op.hash = other.class.op.hash
             /\ buf = buf2) => key.class.op.id = other.class.op.id
    /\ (BlobTag(key) = "Link" /\ BlobTag(other) = "Commit" /\ buf = buf2) =>
         /\ key.account_id = U32_MAX
         /\ key.collection = 0
         /\ key.document_id = U32_MAX

C26_Witness ==
  /\ op = "blob_link_pair"
  /\ BlobTag(key) = "LinkId" /\ BlobTag(other) = "Link"
  /\ key.class.op.id = U64_MAX
  /\ other.account_id = U32_MAX /\ other.document_id = U32_MAX
  /\ other.collection = 0
  /\ key.class.op.hash = other.class.op.hash
  /\ buf # buf2 /\ buf[BLOB_HASH_LEN + U32_LEN + 1] = 255

\* C27 Flag independence: for every key type, two flag words that agree on
\* WITH_SUBSPACE give the same serialization; the other bits never change the
\* output, and subspace() does not depend on the flags.
C27_FlagIndependence ==
  (op = "flag_pair") =>
    /\ buf = buf2
    /\ buf = Key_serialize(key, IF flags % 2 = 1 THEN WITH_SUBSPACE ELSE 0)
    /\ sub = Key_subspace(key)

C27_Witness ==
  /\ op = "flag_pair" /\ flags = 2
  /\ key.kt = "AnyKey" /\ key.subspace = 255 /\ key.key = <<97>>
  /\ buf = <<97>> /\ buf2 = <<97>>

-----------------------------------------------------------------------------
(* The request body reader: fetch_body (crates/jmap/src/api/http.rs) *)

\* most frames a request body stream carries
MaxFrames == 3
\* largest size limit handed to fetch_body
MaxBodySize == 3

\* the payloads a data frame carries: empty, one byte, two bytes
DataChunks == {<<>>, <<1>>, <<2, 3>>}

\* what req.frame() yields before the end of the stream: Some(Ok(frame)) with
\* a data frame or a trailers frame (data_ref() is None), or Some(Err(_))
Frames ==
  {[kind |-> "data", data |-> d] : d \in DataChunks}
    \cup {[kind |-> "trailers", data |-> <<>>], [kind |-> "error", data |-> <<>>]}

SeqsUpTo(S, n) == UNION {[1..m -> S] : m \in 0..n}

BodyStreams == SeqsUpTo(Frames, MaxFrames)

\* the limit test with the boundary excluded
fetch_body_accepts_strict(len, data_len, limit) ==
  len + data_len < limit \/ limit = 0

\* bytes.len() + data.len() <= max_size || max_size == 0
fetch_body_accepts(len, data_len, limit) ==
  len + data_len <= limit \/ limit = 0

\* let mut bytes = Vec::with_capacity(1024)
CallFetchBody ==
  /\ op = "init"
  /\ pc = "idle"
  /\ \E fs \in BodyStreams, m \in 0..MaxBodySize :
      /\ frames' = fs
      /\ max_size' = m
  /\ fetched' = <<>>
  /\ polled' = 0
  /\ body' = None
  /\ pc' = "reading"
  /\ UNCHANGED key_vars
  /\ UNCHANGED <<req, socket_ip, config, remote_ip, trace, response>>

\* one turn of the loop: req.frame() yielded Some(Ok(frame))
PollFrame ==
  /\ pc = "reading"
  /\ polled < Len(frames)
  /\ frames[polled + 1].kind # "error"
  /\ LET frame == frames[polled + 1] IN
      /\ polled' = polled + 1
      /\ IF frame.kind = "data"
           THEN IF fetch_body_accepts(Len(fetched), Len(frame.data), max_size)
                  THEN /\ fetched' = fetched \o frame.data
                       /\ UNCHANGED <<body, pc>>
                  ELSE /\ body' = None
                       /\ pc' = "returned"
                       /\ UNCHANGED fetched
           ELSE UNCHANGED <<fetched, body, pc>>
  /\ UNCHANGED key_vars
  /\ UNCHANGED <<frames, max_size, req, socket_ip, config, remote_ip, trace,
                 response>>

\* the loop ends: req.frame() yielded None or Some(Err(_)); bytes.into()
EndOfBody ==
  /\ pc = "reading"
  /\ \/ /\ polled = Len(frames)
        /\ UNCHANGED polled
     \/ /\ polled < Len(frames)
        /\ frames[polled + 1].kind = "error"
        /\ polled' = polled + 1
  /\ body' = Some(fetched)
  /\ pc' = "returned"
  /\ UNCHANGED key_vars
  /\ UNCHANGED <<frames, fetched, max_size, req, socket_ip, config, remote_ip,
                 trace, response>>

NextBody == CallFetchBody \/ PollFrame \/ EndOfBody

SpecBody == Init /\ [][NextBody]_vars

-----------------------------------------------------------------------------
(* Claims checked under SpecBody *)

\* the payload of the data frames among the first n frames, in arrival order
RECURSIVE DataOf(_, _)
DataOf(fs, n) ==
  IF n = 0 THEN <<>>
  ELSE DataOf(fs, n - 1) \o (IF fs[n].kind = "data" THEN fs[n].data ELSE <<>>)

\* the position where the stream stops: its first frame error, or its end
StreamStop(fs) ==
  IF \E i \in 1..Len(fs) : fs[i].kind = "error"
    THEN CHOOSE i \in 1..Len(fs) :
           /\ fs[i].kind = "error"
           /\ \A j \in 1..(i - 1) : fs[j].kind # "error"
    ELSE Len(fs) + 1

\* the data frames, before the stream stops, whose addition to everything
\* received before them exceeds the limit
Exceeding(fs, limit) ==
  {i \in 1..(StreamStop(fs) - 1) :
     /\ limit > 0
     /\ fs[i].kind = "data"
     /\ Len(DataOf(fs, i - 1)) + Len(fs[i].data) > limit}

FirstOf(S) == CHOOSE i \in S : \A j \in S : i <= j

\* C28 Body size limit: once fetch_body has returned, either some data frame
\* before the end of the stream or the first frame error would push the
\* accumulated length over a non-zero max_size, and then the result is None
\* and the first such frame is the last frame taken off the stream; or there
\* is no such frame, and the result is Some of the concatenation, in arrival
\* order, of the data frames received before the stream stopped, which is no
\* longer than max_size unless max_size is 0.
C28_BodySizeLimit ==
  pc = "returned" =>
    IF Exceeding(frames, max_size) # {}
      THEN /\ body = None
           /\ polled = FirstOf(Exceeding(frames, max_size))
      ELSE /\ body = Some(DataOf(frames, StreamStop(frames) - 1))
           /\ max_size > 0 => Len(body[1]) <= max_size

\* a body rejected at its second data frame, with a frame left unread
C28_Witness ==
  /\ pc = "returned"
  /\ body = None
  /\ polled = 2
  /\ Len(frames) = 3
  /\ Len(fetched) = 2
  /\ max_size = 2

\* a body accepted at exactly the limit, and one accepted without a limit
C28_WitnessAccepted ==
  /\ pc = "returned"
  /\ body # None
  /\ \/ max_size > 0 /\ Len(body[1]) = max_size
     \/ max_size = 0 /\ Len(body[1]) > MaxBodySize

-----------------------------------------------------------------------------
(* Text handling of the forwarded-address headers                          *)
(* (handle_session, crates/jmap/src/api/http.rs).  A header value is a     *)
(* sequence of one-character strings.                                      *)

\* usize::MAX, read modulo 2^64
USIZE_MAX == 0 - 1

DigitChars == <<"0", "1", "2", "3", "4", "5", "6", "7", "8", "9">>
UpperChars == <<"A", "B", "C", "D", "E", "F", "O", "R", "Y">>
LowerChars == <<"a", "b", "c", "d", "e", "f", "o", "r", "y">>

\* a header byte outside visible ASCII
OpaqueByte == "\\x80"

IsDigit(ch) == \E i \in 1..Len(DigitChars) : DigitChars[i] = ch
DigitValue(ch) == (CHOOSE i \in 1..Len(DigitChars) : DigitChars[i] = ch) - 1

\* HeaderValue::to_str: fails on a byte that is not visible ASCII
HeaderValue_to_str(h) ==
  IF \E i \in 1..Len(h) : h[i] = OpaqueByte THEN None ELSE Some(h)

\* str::to_ascii_lowercase
to_ascii_lowercase(h) ==
  [i \in 1..Len(h) |->
     IF \E k \in 1..Len(UpperChars) : UpperChars[k] = h[i]
       THEN LowerChars[CHOOSE k \in 1..Len(UpperChars) : UpperChars[k] = h[i]]
       ELSE h[i]]

\* str::split_once: the text before and after the first occurrence of pat
split_once(h, pat) ==
  LET hits == {i \in 1..(Len(h) - Len(pat) + 1) :
                 SubSeq(h, i, i + Len(pat) - 1) = pat}
  IN IF hits = {} THEN None
     ELSE LET i == CHOOSE i \in hits : \A j \in hits : i <= j
          IN Some([before |-> SubSeq(h, 1, i - 1),
                   after |-> SubSeq(h, i + Len(pat), Len(h))])

\* '0'..='9' | 'a'..='f' | ':' | '.'
IsAddressChar(ch) ==
  \/ IsDigit(ch)
  \/ ch \in {"a", "b", "c", "d", "e", "f", ":", "."}

\* the scan over rest.char_indices(): the offsets of the first and the last
\* character of the address text (pos counts from 0)
RECURSIVE forwarded_scan(_, _, _, _)
forwarded_scan(rest, pos, start_ip, end_ip) ==
  IF pos = Len(rest) THEN [start_ip |-> start_ip, end_ip |-> end_ip]
  ELSE LET ch == rest[pos + 1] IN
    IF IsAddressChar(ch)
      THEN forwarded_scan(rest, pos + 1,
                          IF start_ip = USIZE_MAX THEN pos ELSE start_ip, pos)
    ELSE IF ch \in {"\"", "[", " "} /\ start_ip = USIZE_MAX
      THEN forwarded_scan(rest, pos + 1, start_ip, end_ip)
    ELSE [start_ip |-> start_ip, end_ip |-> end_ip]

\* str::get(start..=end): None when end is usize::MAX, when the range is
\* reversed or when it runs past the text
str_get(s, start, end) ==
  IF end = USIZE_MAX \/ start = USIZE_MAX THEN None
  ELSE IF start > end + 1 \/ end >= Len(s) THEN None
  ELSE Some(SubSeq(s, start + 1, end + 1))

\* str::trim, on the only white space of the model
RECURSIVE trim_start(_)
trim_start(s) ==
  IF s # <<>> /\ Head(s) = " " THEN trim_start(Tail(s)) ELSE s

RECURSIVE trim_end(_)
trim_end(s) ==
  IF s # <<>> /\ s[Len(s)] = " " THEN trim_end(SubSeq(s, 1, Len(s) - 1)) ELSE s

trim(s) == trim_end(trim_start(s))

\* the pieces of s between the dots
RECURSIVE split_dots(_)
split_dots(s) ==
  IF \E i \in 1..Len(s) : s[i] = "."
    THEN LET i == CHOOSE i \in 1..Len(s) :
                    s[i] = "." /\ \A j \in 1..(i - 1) : s[j] # "."
         IN <<SubSeq(s, 1, i - 1)>> \o split_dots(SubSeq(s, i + 1, Len(s)))
    ELSE <<s>>

RECURSIVE decimal(_)
decimal(s) ==
  IF s = <<>> THEN 0
  ELSE 10 * decimal(SubSeq(s, 1, Len(s) - 1)) + DigitValue(s[Len(s)])

\* an octet of a dotted quad: one to three digits, no leading zero, at most 255
IsOctet(s) ==
  /\ Len(s) \in 1..3
  /\ \A i \in 1..Len(s) : IsDigit(s[i])
  /\ Len(s) > 1 => s[1] # "0"
  /\ decimal(s) <= 255

Ipv4(a, b, c, d) == [v |-> 4, a |-> <<a, b, c, d>>]
Ipv6Loopback == [v |-> 6, a |-> <<0, 0, 0, 0, 0, 0, 0, 1>>]

\* str::parse::<IpAddr>: a dotted quad, or the one IPv6 text of the model
parse_IpAddr(s) ==
  LET parts == split_dots(s) IN
    IF Len(parts) = 4 /\ \A i \in 1..4 : IsOctet(parts[i])
      THEN Some(Ipv4(decimal(parts[1]), decimal(parts[2]),
                     decimal(parts[3]), decimal(parts[4])))
    ELSE IF s = <<":", ":", "1">> THEN Some(Ipv6Loopback)
    ELSE None

\* IpAddr::is_loopback: 127.0.0.0/8 and ::1
is_loopback(ip) ==
  \/ ip.v = 4 /\ ip.a[1] = 127
  \/ ip = Ipv6Loopback

\* the Forwarded header: lower-cased, cut after the first "for=", scanned
forwarded_header(h) ==
  LET lower == to_ascii_lowercase(h)
      cut == split_once(lower, <<"f", "o", "r", "=">>)
  IN IF cut = None THEN None
     ELSE LET rest == cut[1].after
              scan == forwarded_scan(rest, 0, USIZE_MAX, USIZE_MAX)
              text == str_get(rest, scan.start_ip, scan.end_ip)
          IN IF text = None THEN None ELSE parse_IpAddr(text[1])

\* the X-Forwarded-For header: the text before the first comma, trimmed
x_forwarded_for_header(h) ==
  LET cut == split_once(h, <<",">>)
  IN parse_IpAddr(trim(IF cut = None THEN h ELSE cut[1].before))

header_text(value) == IF value = None THEN None ELSE HeaderValue_to_str(value[1])

\* the forwarded address with the two headers consulted in the other order
forwarded_address_xff_first(r) ==
  LET fw == header_text(r.forwarded)
      xff == header_text(r.x_forwarded_for)
      first == IF xff = None THEN None ELSE x_forwarded_for_header(xff[1])
  IN IF first # None THEN first
     ELSE IF fw = None THEN None ELSE forwarded_header(fw[1])

\* the forwarded address of a request: Forwarded, or else X-Forwarded-For
forwarded_address(r) ==
  LET fw == header_text(r.forwarded)
      xff == header_text(r.x_forwarded_for)
      first == IF fw = None THEN None ELSE forwarded_header(fw[1])
  IN IF first # None THEN first
     ELSE IF xff = None THEN None ELSE x_forwarded_for_header(xff[1])

-----------------------------------------------------------------------------
(* Serving one HTTP request: handle_session and parse_http_request *)

StatusCode_OK == 200
StatusCode_NO_CONTENT == 204
StatusCode_FORBIDDEN == 403

\* decimal text of an octet, and the dotted quad of four of them
RECURSIVE Dec(_)
Dec(n) == IF n < 10 THEN <<DigitChars[n + 1]>>
          ELSE Dec(n \div 10) \o <<DigitChars[(n % 10) + 1]>>

Quad(a, b, c, d) ==
  Dec(a) \o <<".">> \o Dec(b) \o <<".">> \o Dec(c) \o <<".">> \o Dec(d)

ForEq == <<"f", "o", "r", "=">>

\* Forwarded header values: absent; a bare address; an upper-case key with a
\* quoted, bracketed IPv6 address and a port; an address followed by another
\* parameter; an address with a port; no for= at all; an obfuscated first
\* for= followed by a second one; a blocked address after a space; a byte
\* that is no text
ForwardedValues ==
  { None,
    Some(ForEq \o Quad(10, 0, 0, 1)),
    Some(<<"F", "o", "r", "=", "\"", "[", ":", ":", "1", "]", ":", "8", "0", "\"">>),
    Some(ForEq \o Quad(127, 0, 0, 1) \o <<";", "b", "y", "=">> \o Quad(10, 0, 0, 2)),
    Some(ForEq \o Quad(10, 0, 0, 1) \o <<":", "8", "0">>),
    Some(<<"b", "y", "=">> \o Quad(10, 0, 0, 2)),
    Some(ForEq \o <<"_", "x", ",">> \o ForEq \o Quad(10, 0, 0, 1)),
    Some(ForEq \o <<" ">> \o Quad(10, 0, 0, 9)),
    Some(<<OpaqueByte>>) }

\* X-Forwarded-For header values: absent; one address; a blocked address with
\* spaces around it, then a second entry; an octet out of range; a loopback
\* address, then text that is no address
XForwardedForValues ==
  { None,
    Some(Quad(10, 0, 0, 2)),
    Some(<<" ">> \o Quad(10, 0, 0, 9) \o <<" ", ",">> \o Quad(10, 0, 0, 1)),
    Some(Quad(256, 0, 0, 1)),
    Some(Quad(127, 0, 0, 1) \o <<",", "x">>) }

\* request targets: the path segments after the leading slash, and the method
Targets ==
  { [path |-> <<"jmap", "eventsource">>, method |-> "GET"],
    [path |-> <<"jmap", "eventsource">>, method |-> "OPTIONS"],
    [path |-> <<"jmap", "">>, method |-> "GET"],
    [path |-> <<"auth", "token">>, method |-> "POST"],
    [path |-> <<"robots.txt">>, method |-> "GET"],
    [path |-> <<"healthz", "live">>, method |-> "GET"],
    [path |-> <<"healthz", "x">>, method |-> "GET"],
    [path |-> <<".env">>, method |-> "GET"] }

Requests ==
  { [forwarded |-> f, x_forwarded_for |-> x, path |-> t.path, method |-> t.method] :
      f \in ForwardedValues, x \in XForwardedForValues, t \in Targets }

\* peers of the connection: a remote host and the local host
SocketIps == {Ipv4(10, 0, 0, 3), Ipv4(127, 0, 0, 1)}

\* the addresses on the server's block list
BlockedIps == {Ipv4(10, 0, 0, 9)}

\* what the http_allowed_endpoint expression evaluates to, if to anything
AllowedEndpoint ==
  {None, Some(StatusCode_OK), Some(StatusCode_FORBIDDEN), Some(StatusCode_NO_CONTENT)}

\* server.is_ip_blocked
is_ip_blocked(cfg, ip) == ip \in cfg.blocked

\* eval_if(http_allowed_endpoint).unwrap_or(StatusCode::OK)
has_endpoint_access(cfg) ==
  IF cfg.http_allowed_endpoint = None THEN StatusCode_OK
  ELSE cfg.http_allowed_endpoint[1]

\* the gate turning every address away
endpoint_refused_any_address(status, ip) == status # StatusCode_OK

\* the request is turned away: a status other than OK, and no loopback peer
endpoint_refused(status, ip) == status # StatusCode_OK /\ ~is_loopback(ip)

\* the match on the path and the method, up to the final NotFound: the steps
\* run, in order, and the response they end in
route(r, authenticated, anonymous_allowed) ==
  LET first == r.path[1]
      second == IF Len(r.path) > 1 THEN r.path[2] ELSE ""
      done(resp) == [steps |-> <<>>, response |-> resp]
      not_found == [steps |-> <<"is_http_banned_path">>,
                    response |-> Failed("NotFound")]
      authenticate(handler) ==
        IF authenticated
          THEN [steps |-> <<"authenticate_headers", handler>>,
                response |-> Handled(handler)]
          ELSE [steps |-> <<"authenticate_headers">>,
                response |-> Failed("authenticate_headers")]
      anonymous(then) ==
        IF anonymous_allowed
          THEN [steps |-> <<"is_http_anonymous_request_allowed">> \o then.steps,
                response |-> then.response]
          ELSE [steps |-> <<"is_http_anonymous_request_allowed">>,
                response |-> Failed("is_http_anonymous_request_allowed")]
      handle(handler) == [steps |-> <<handler>>, response |-> Handled(handler)]
  IN CASE first = "jmap" ->
            (IF second = "eventsource" /\ r.method = "GET"
               THEN authenticate("handle_event_source")
             ELSE IF r.method = "OPTIONS" THEN done(Status(StatusCode_NO_CONTENT))
             ELSE not_found)
       [] first = "auth" ->
            (IF second = "token" /\ r.method = "POST"
               THEN anonymous(handle("handle_token_request"))
             ELSE IF r.method = "OPTIONS" THEN done(Status(StatusCode_NO_CONTENT))
             ELSE not_found)
       [] first = "robots.txt" -> anonymous(done(Status(StatusCode_OK)))
       [] first = "healthz" ->
            anonymous(IF second = "live" THEN done(Status(StatusCode_OK))
                      ELSE not_found)
       [] OTHER -> [steps |-> <<"webadmin.get", "is_http_banned_path">>,
                    response |-> Failed("NotFound")]

\* hyper hands a request of the connection to the service function
ReceiveRequest ==
  /\ op = "init"
  /\ pc = "idle"
  /\ \E r \in Requests, ip \in SocketIps, fw \in BOOLEAN, allowed \in AllowedEndpoint :
      /\ req' = r
      /\ socket_ip' = ip
      /\ config' = [http_use_forwarded |-> fw, http_allowed_endpoint |-> allowed,
                    blocked |-> BlockedIps, authenticated |-> FALSE,
                    anonymous_allowed |-> FALSE]
  /\ pc' = "handle_session"
  /\ UNCHANGED key_vars
  /\ UNCHANGED <<frames, polled, fetched, max_size, body, remote_ip, trace, response>>

\* handle_session obtains the remote IP, and answers 403 to a blocked one
ObtainRemoteIp ==
  /\ pc = "handle_session"
  /\ LET forwarded_for == forwarded_address(req) IN
       IF ~config.http_use_forwarded
         THEN /\ remote_ip' = socket_ip
              /\ pc' = "parse_http_request"
              /\ UNCHANGED response
       ELSE IF forwarded_for # None
         THEN IF is_ip_blocked(config, forwarded_for[1])
                THEN /\ response' = Status(StatusCode_FORBIDDEN)
                     /\ pc' = "responded"
                     /\ UNCHANGED remote_ip
                ELSE /\ remote_ip' = forwarded_for[1]
                     /\ pc' = "parse_http_request"
                     /\ UNCHANGED response
       ELSE /\ remote_ip' = socket_ip
            /\ pc' = "parse_http_request"
            /\ UNCHANGED response
  /\ UNCHANGED key_vars
  /\ UNCHANGED <<frames, polled, fetched, max_size, body, req, socket_ip, config, trace>>

\* parse_http_request validates endpoint access
EndpointAccess ==
  /\ pc = "parse_http_request"
  /\ trace' = <<"has_endpoint_access">>
  /\ LET status == has_endpoint_access(config) IN
       IF endpoint_refused(status, remote_ip)
         THEN /\ response' = Status(status)
              /\ pc' = "responded"
         ELSE /\ pc' = "dispatch"
              /\ UNCHANGED response
  /\ UNCHANGED key_vars
  /\ UNCHANGED <<frames, polled, fetched, max_size, body, req, socket_ip, config,
                 remote_ip>>

\* parse_http_request matches the path and runs the route; whether the
\* credentials are good and whether the anonymous rate limit lets the
\* request through is settled by the checks when they run
Dispatch ==
  /\ pc = "dispatch"
  /\ \E authenticated \in BOOLEAN, anonymous_allowed \in BOOLEAN :
      LET out == route(req, authenticated, anonymous_allowed) IN
        /\ config' = [config EXCEPT !.authenticated = authenticated,
                                    !.anonymous_allowed = anonymous_allowed]
        /\ trace' = trace \o out.steps
        /\ response' = out.response
  /\ pc' = "responded"
  /\ UNCHANGED key_vars
  /\ UNCHANGED <<frames, polled, fetched, max_size, body, req, socket_ip, remote_ip>>

NextHttp == ReceiveRequest \/ ObtainRemoteIp \/ EndpointAccess \/ Dispatch

SpecHttp == Init /\ [][NextHttp]_vars

-----------------------------------------------------------------------------
(* Claims checked under SpecHttp *)

\* parse_http_request has been entered for the request
ParseCalled == pc \in {"dispatch", "responded"} /\ trace # <<>>

\* the steps the gate is to come before
GatedSteps ==
  {"authenticate_headers", "is_http_anonymous_request_allowed",
   "handle_event_source", "handle_token_request", "webadmin.get",
   "is_http_banned_path"}

\* C29 Endpoint access gate: once parse_http_request has evaluated endpoint
\* access, a status other than 200 OK for a remote_ip that is no loopback
\* address means the call has returned a response with exactly that status
\* and has run no authentication, no anonymous rate-limit check, no handler
\* and no banned-path check; and for a loopback remote_ip the steps run and
\* the response are those of the route alone, the same as when access
\* evaluates to OK, whatever status access evaluated to.
C29_EndpointAccessGate ==
  LET status == has_endpoint_access(config)
      out == route(req, config.authenticated, config.anonymous_allowed)
  IN /\ (ParseCalled /\ status # StatusCode_OK /\ ~is_loopback(remote_ip)) =>
          /\ pc = "responded"
          /\ response = Status(status)
          /\ \A i \in 1..Len(trace) : trace[i] \notin GatedSteps
     /\ (ParseCalled /\ pc = "responded"
           /\ (status = StatusCode_OK \/ is_loopback(remote_ip))) =>
          /\ trace = <<"has_endpoint_access">> \o out.steps
          /\ response = out.response

\* a request from a remote host turned away with the configured status
C29_Witness ==
  /\ pc = "responded"
  /\ trace = <<"has_endpoint_access">>
  /\ has_endpoint_access(config) = StatusCode_FORBIDDEN
  /\ ~is_loopback(remote_ip)
  /\ response = Status(StatusCode_FORBIDDEN)
  /\ req.path = <<"jmap", "eventsource">>

\* a loopback request let through a closed gate to its handler
C29_WitnessLoopback ==
  /\ pc = "responded"
  /\ has_endpoint_access(config) = StatusCode_FORBIDDEN
  /\ is_loopback(remote_ip)
  /\ response = Handled("handle_event_source")

\* the address texts of a Forwarded header value, read off its lower-cased
\* text: after the first "for=", past any quotes, brackets and spaces, the
\* longest run of address characters
ForValueTexts(h) ==
  LET lower == to_ascii_lowercase(h)
      IsFor(i) == i + 3 <= Len(lower) /\ SubSeq(lower, i, i + 3) = ForEq
  IN {SubSeq(lower, j, k) : <<j, k>> \in
        {jk \in (1..Len(lower)) \X (1..Len(lower)) :
           /\ jk[1] <= jk[2]
           /\ \E i \in 1..Len(lower) :
                /\ IsFor(i)
                /\ \A i0 \in 1..(i - 1) : ~IsFor(i0)
                /\ i + 4 <= jk[1]
                /\ \A m \in (i + 4)..(jk[1] - 1) : lower[m] \in {"\"", "[", " "}
           /\ \A m \in jk[1]..jk[2] : IsAddressChar(lower[m])
           /\ jk[2] < Len(lower) => ~IsAddressChar(lower[jk[2] + 1])}}

\* the first entry of an X-Forwarded-For header value, without the spaces
\* around it
FirstEntryTexts(h) ==
  LET stop == IF \E i \in 1..Len(h) : h[i] = ","
                THEN CHOOSE i \in 1..Len(h) :
                       h[i] = "," /\ \A j \in 1..(i - 1) : h[j] # ","
                ELSE Len(h) + 1
  IN {SubSeq(h, j, k) : <<j, k>> \in
        {jk \in (1..Len(h)) \X (1..Len(h)) :
           /\ jk[1] <= jk[2] /\ jk[2] < stop
           /\ h[jk[1]] # " " /\ h[jk[2]] # " "
           /\ \A m \in 1..(jk[1] - 1) : h[m] = " "
           /\ \A m \in (jk[2] + 1)..(stop - 1) : h[m] = " "}}

IsText(value) ==
  value # None /\ \A i \in 1..Len(value[1]) : value[1][i] # OpaqueByte

\* the addresses a set of texts parses to
Parsed(texts) == {parse_IpAddr(t)[1] : t \in {u \in texts : parse_IpAddr(u) # None}}

\* the addresses named by the Forwarded header, else by X-Forwarded-For
ForwardedAddresses(r) ==
  LET for == IF IsText(r.forwarded)
               THEN Parsed(ForValueTexts(r.forwarded[1])) ELSE {}
      first == IF IsText(r.x_forwarded_for)
                 THEN Parsed(FirstEntryTexts(r.x_forwarded_for[1])) ELSE {}
  IN IF for # {} THEN for ELSE first

\* C30 Forwarded-address handling: once handle_session has obtained the
\* remote IP then, with http_use_forwarded enabled, a blocked address from
\* the Forwarded header's for= value, or else from the first entry of
\* X-Forwarded-For, means the request was answered with 403 Forbidden and
\* parse_http_request was not called; otherwise the remote IP passed to
\* parse_http_request is that address, or the socket's remote_ip when
\* neither header yields an address; with http_use_forwarded disabled it is
\* the socket's remote_ip whatever the headers say.
C30_ForwardedAddress ==
  pc \in {"parse_http_request", "dispatch", "responded"} =>
    LET named == IF config.http_use_forwarded THEN ForwardedAddresses(req) ELSE {}
    IN IF named \cap config.blocked # {}
         THEN /\ pc = "responded"
              /\ response = Status(StatusCode_FORBIDDEN)
              /\ remote_ip = NoIp
              /\ trace = <<>>
         ELSE /\ Cardinality(named) <= 1
              /\ named # {} => remote_ip \in named
              /\ named = {} => remote_ip = socket_ip

\* the Forwarded header wins over X-Forwarded-For and over the socket
C30_Witness ==
  /\ pc = "responded"
  /\ config.http_use_forwarded
  /\ req.forwarded = Some(<<"F", "o", "r", "=", "\"", "[", ":", ":", "1", "]", ":", "8", "0", "\"">>)
  /\ req.x_forwarded_for = Some(Quad(10, 0, 0, 2))
  /\ socket_ip = Ipv4(10, 0, 0, 3)
  /\ remote_ip = Ipv6Loopback
  /\ trace # <<>>

\* a blocked first entry of X-Forwarded-For, answered without a dispatch
C30_WitnessBlocked ==
  /\ pc = "responded"
  /\ req.forwarded = Some(ForEq \o Quad(10, 0, 0, 1) \o <<":", "8", "0">>)
  /\ response = Status(StatusCode_FORBIDDEN)
  /\ remote_ip = NoIp
  /\ trace = <<>>

\* headers present and ignored
C30_WitnessDisabled ==
  /\ pc = "responded"
  /\ ~config.http_use_forwarded
  /\ req.forwarded = Some(ForEq \o Quad(10, 0, 0, 1))
  /\ remote_ip = socket_ip

=============================================================================
